---- MODULE Spec2Model ----
(***************************************************************************)
(* Model of the SRCF job control plane:                                    *)
(*   - the job state machine (srcf/controllib/jobs.py),                    *)
(*   - the job runner (srcf/controllib/job_runner.py),                     *)
(*   - the Result value type of the task engine                            *)
(*     (srcflib/plumbing/common.py).                                       *)
(***************************************************************************)
EXTENDS Integers, Sequences, FiniteSets, TLC

(***************************************************************************)
(* Bounds                                                                  *)
(***************************************************************************)
\* number of job rows that can be inserted
MaxJobs == 2
\* number of ids queued on a connection's notification list
MaxNotifies == 1
\* number of parts of a composite Result
MaxParts == 3
\* number of characters of a template handed to Password
MaxTemplate == 4
\* number of wrap() calls on a Password
MaxWraps == 2
\* number of calls of a function wrapped by require_host
MaxCalls == 3
\* number of entries of an NFSv4 ACL
MaxAces == 3

JobIds == 1..MaxJobs
Runners == {1, 2}
NoRunner == 0
NoJob == 0
\* Python's None (no message / no explicit state)
None == "None"

(***************************************************************************)
(* jobs.py: JobAction, Job.transition, Job.set_state                       *)
(***************************************************************************)
JobStates == {"unapproved", "queued", "running", "done", "failed", "withdrawn"}
Terminal == {"done", "failed", "withdrawn"}

JobAction ==
    [reject  |-> [past_label |-> "rejected",  old_state |-> "unapproved", new_state |-> "withdrawn"],
     approve |-> [past_label |-> "approved",  old_state |-> "unapproved", new_state |-> "queued"],
     cancel  |-> [past_label |-> "cancelled", old_state |-> "queued",     new_state |-> "failed"],
     abort   |-> [past_label |-> "aborted",   old_state |-> "running",    new_state |-> "failed"],
     repeat  |-> [past_label |-> "repeated",  old_state |-> "done",       new_state |-> "queued"],
     retry   |-> [past_label |-> "retried",   old_state |-> "failed",     new_state |-> "queued"]]

ActionNames == DOMAIN JobAction

\* Job.set_state: both fields are overwritten, the other columns are kept
set_state(job, state, message) ==
    [job EXCEPT !.state = state, !.state_message = message]

\* "Job {} by sysadmins".format(action.past_label)
by_sysadmins(action) == "Job " \o JobAction[action].past_label \o " by sysadmins"

\* a transition that does not check the current state
transition_unchecked(job, action, message) ==
    LET a == JobAction[action]
        m == IF a.new_state \in {"failed", "withdrawn"} /\ message = None
             THEN by_sysadmins(action) ELSE message
    IN  [raised |-> FALSE,
         job |-> set_state(job, a.new_state, IF m /= None THEN m ELSE job.state_message)]

\* Job.transition: the result is the job after the call and whether
\* JobActionInvalid was raised
transition(job, action, message) ==
    LET a == JobAction[action]
        m == IF a.new_state \in {"failed", "withdrawn"} /\ message = None
             THEN by_sysadmins(action) ELSE message
    IN  IF job.state /= a.old_state
        THEN [raised |-> TRUE, job |-> job]
        ELSE [raised |-> FALSE,
              job |-> set_state(job, a.new_state, IF m /= None THEN m ELSE job.state_message)]

\* Job.create: the state of a new row
create(require_approval) == IF require_approval THEN "unapproved" ELSE "queued"

(***************************************************************************)
(* State                                                                   *)
(***************************************************************************)
VARIABLES
    rows,          \* the jobs table: rows[i] is the committed row with job_id i
    lock_holder,   \* the session holding advisory lock RUNNER_LOCK_NUM
    listening,     \* runner connections with a committed LISTEN jobs_insert
    pc,            \* position of every runner process
    existing_ids,  \* queued_jobs: backlog ids not yet yielded
    notifies,      \* conn.notifies of every runner connection
    cur,           \* main: the id i being dispatched
    run,           \* main: run_state, run_message once job.run has ended
    fresh,         \* per job id: the row became queued and no handler was started since
    emails,        \* per job id: email_error was called in the last run of the job
    log,           \* number of log entries main wrote for the id it is dispatching
    t_job,         \* Job.transition: the job it is called on
    t_call,        \* Job.transition: the last call, with the job before it
    res_parts,     \* Result: the parts a task has yielded
    res_state,     \* Result: the explicitly set state of the composite
    res_pc,        \* Result: position of the task under Result.collect
    res_value,     \* Result: the value of the composite
    gen_yields,    \* the task: the Results it has yielded, with the form of each yield
    gen_got,       \* the task: what its yield expressions evaluated to
    gen_return     \* the task: its return value

runner_vars == <<lock_holder, listening, pc, existing_ids, notifies, cur, run>>
hist_vars == <<fresh, emails, log>>
fsm_vars == <<t_job, t_call>>
result_vars == <<res_parts, res_state, res_pc, res_value, gen_yields, gen_got, gen_return>>
VARIABLES
    pw,            \* Password: the object, _value and _template
    pw_twin,       \* Password: an object made the same way from another secret
    pw_prev,       \* Password: the object wrap() was last called on
    pw_tpl,        \* Password: the template wrap() was last called with
    pw_pc          \* Password: "idle", "made", "wrapped", and the number of wraps

VARIABLES
    rh_hosts,      \* require_host: the hosts the decorator was given
    rh_body,       \* require_host: number of times the wrapped body has run
    rh_out         \* require_host: the last call of the wrapper and how it ended

VARIABLES
    id_dir,        \* the directory at the path given to mkdir, or None
    id_acl,        \* the NFSv4 ACL of a path: its entries, first to last
    id_roles,      \* the users of the PostgreSQL server
    id_call,       \* the plumbing call made last: primitive and input
    id_res,        \* the state of the Result it returned
    id_repeat,     \* the call before it was the same call
    id_prev        \* directory, ACL and users before the last call

VARIABLES
    fs,            \* what is at each path: nothing, a file, a directory or a link
    sl_call,       \* unix.symlink: the last call, link, target and needed
    sl_res,        \* unix.symlink: the state of the Result it returned
    sl_prev        \* unix.symlink: fs before the last call

VARIABLES
    my_users,      \* MySQL: the names in mysql.user
    my_dbs,        \* MySQL: the databases
    pg_roles,      \* PostgreSQL: pg_roles, rolname to rolcanlogin
    sql_call,      \* the SQL plumbing call made last: function and name
    sql_out,       \* whether it raised, and the state and value of its Result
    sql_sent,      \* the statements it sent to the server, with their arguments
    sql_prev       \* users, databases and roles before the call

VARIABLES
    nm_owner,      \* name mapping: the name of an owner
    nm_other,      \* the name of another owner
    nm_user,       \* the SQL user name of nm_owner
    nm_other_user, \* the SQL user name of nm_other
    nm_rev         \* the owner name found back from nm_user

VARIABLES
    sy_dialect,    \* role sync: the SQL dialect of the server, mysql or pgsql
    sy_soc,        \* the short name of the society
    sy_admins,     \* society.admin_crsids
    sy_my,         \* MySQL: the users and the rows of mysql.db
    sy_pg,         \* PostgreSQL: pg_roles and pg_auth_members
    sy_res,        \* the state of the Result of the last sync_society_roles
    sy_sent,       \* the GRANT and REVOKE statements it sent
    sy_prev,       \* the server before that call
    sy_calls       \* number of calls made

sync_vars == <<sy_dialect, sy_soc, sy_admins, sy_my, sy_pg, sy_res, sy_sent, sy_prev, sy_calls>>
VARIABLES
    sc_jobs,       \* scrub: the job rows of the session, type, owner_crsid and args
    sc_call,       \* the task run last and the owner it was given
    sc_res,        \* the state of the Result of scrub_member_jobs in that task, if it ran
    sc_deleted     \* the owners deleted so far

scrub_vars == <<sc_jobs, sc_call, sc_res, sc_deleted>>
VARIABLES
    cr_type,       \* job creation: the JOB_TYPE of the factory called
    cr_in,         \* what the factory was given: danger flags, role_email, admins, action, email
    cr_state       \* the state of the row the factory made

create_vars == <<cr_type, cr_in, cr_state>>
VARIABLES
    em_current,    \* email: CURRENT_WRAPPER
    em_blocks,     \* the wrappers whose with block is running, innermost last
    em_raised,     \* an exception is on its way out of the running with blocks
    em_sent,       \* number of mails handed to send_mail
    em_call,       \* the call made last and CURRENT_WRAPPER and em_sent before it
    em_res         \* the state of the Result of the last send

email_vars == <<em_current, em_blocks, em_raised, em_sent, em_call, em_res>>
VARIABLES
    mb_row,        \* the rows of the members table for one crsid: none or one
    mb_call,       \* the task run last, with its is_member and is_user arguments
    mb_raised,     \* whether that task ended in an IntegrityError
    mb_tasks       \* number of tasks run

member_vars == <<mb_row, mb_call, mb_raised, mb_tasks>>
VARIABLES
    se_db,         \* runner session: the committed tables and the committed row of the job
    se_sess,       \* the same as the session holds them, changes not yet committed included
    se_pc,         \* position of main in the dispatch of the job
    se_run,        \* how job.run ended in the last dispatch, until the row is changed again
    se_before,     \* the committed tables and row when job.run started
    se_at_end,     \* what the session held when job.run ended
    se_runs        \* number of dispatches of the job

session_vars == <<se_db, se_sess, se_pc, se_run, se_before, se_at_end, se_runs>>
VARIABLES
    ad_soc,        \* admin change: the society of the job: it exists, its admins, its UNIX group
    ad_flags,      \* member and user of every member record
    ad_job,        \* the change_society_admin job being dispatched: owner, target_member, action
    ad_pc,         \* position of the dispatch: no job, found, ran, or crashed in Job.find
    ad_out,        \* how run ended: the exception raised and its message
    ad_calls,      \* the plumbing and email calls run made, in order
    ad_prev,       \* the society when run started
    ad_row,        \* state and state_message of the job row
    ad_jobs        \* number of jobs dispatched

admin_vars == <<ad_soc, ad_flags, ad_job, ad_pc, ad_out, ad_calls, ad_prev, ad_row, ad_jobs>>
VARIABLES
    ml_listname,   \* mailing list job: the listname argument of the job
    ml_lists,      \* the names of the lists Mailman holds
    ml_pc,         \* position of the dispatch: job found, or ran
    ml_out         \* how run ended: the exception raised and its message

list_vars == <<ml_listname, ml_lists, ml_pc, ml_out>>
VARIABLES
    tk_task,       \* the task generator Result.collect is driving
    tk_in,         \* the arguments of the task and the state of the machine before it
    tk_pc,         \* the yield the generator is suspended at
    tk_loc,        \* the local variables of the generator
    tk_world,      \* the accounts, files and records the steps act on
    tk_trace       \* the steps run so far, in order

tk_vars == <<tk_task, tk_in, tk_pc, tk_loc, tk_world, tk_trace>>
task_vars == <<sync_vars, scrub_vars, create_vars, email_vars, member_vars, session_vars, admin_vars, list_vars, tk_vars>>
name_vars == <<nm_owner, nm_other, nm_user, nm_other_user, nm_rev>>
pw_vars == <<pw, pw_twin, pw_prev, pw_tpl, pw_pc>>
sql_vars == <<my_users, my_dbs, pg_roles, sql_call, sql_out, sql_sent, sql_prev>>
symlink_vars == <<fs, sl_call, sl_res, sl_prev>>
host_vars == <<rh_hosts, rh_body, rh_out>>
idem_vars == <<id_dir, id_acl, id_roles, id_call, id_res, id_repeat, id_prev>>
plumb_vars == <<pw_vars, host_vars, idem_vars, symlink_vars, sql_vars, name_vars>>
lib_vars == <<plumb_vars, task_vars>>
base_vars == <<rows, runner_vars, hist_vars, fsm_vars, result_vars, plumb_vars>>
sync_frame == <<base_vars, scrub_vars, create_vars, email_vars, member_vars, session_vars, admin_vars, list_vars, tk_vars>>
scrub_frame == <<base_vars, sync_vars, create_vars, email_vars, member_vars, session_vars, admin_vars, list_vars, tk_vars>>
create_frame == <<base_vars, sync_vars, scrub_vars, email_vars, member_vars, session_vars, admin_vars, list_vars, tk_vars>>
email_frame == <<base_vars, sync_vars, scrub_vars, create_vars, member_vars, session_vars, admin_vars, list_vars, tk_vars>>
member_frame == <<base_vars, sync_vars, scrub_vars, create_vars, email_vars, session_vars, admin_vars, list_vars, tk_vars>>
session_frame == <<base_vars, sync_vars, scrub_vars, create_vars, email_vars, member_vars, admin_vars, list_vars, tk_vars>>
admin_frame == <<base_vars, sync_vars, scrub_vars, create_vars, email_vars, member_vars, session_vars, list_vars, tk_vars>>
list_frame == <<base_vars, sync_vars, scrub_vars, create_vars, email_vars, member_vars, session_vars, admin_vars, tk_vars>>
tk_frame == <<base_vars, sync_vars, scrub_vars, create_vars, email_vars, member_vars, session_vars, admin_vars, list_vars>>
vars == <<rows, runner_vars, hist_vars, fsm_vars, result_vars, lib_vars>>

NoCall == [action |-> None, message |-> None, raised |-> FALSE, old |-> None]
NoRunResult == [outcome |-> None, state |-> None, message |-> None]

Last(s) == s[Len(s)]
Front(s) == SubSeq(s, 1, Len(s) - 1)
Range(s) == {s[k] : k \in DOMAIN s}

\* all orderings of a set of ids
Orderings(S) ==
    {s \in [1..Cardinality(S) -> S] : \A a, b \in DOMAIN s : a /= b => s[a] /= s[b]}

RunnerInit ==
    /\ rows = <<>>
    /\ lock_holder = NoRunner
    /\ listening = {}
    /\ pc = [r \in Runners |-> "off"]
    /\ existing_ids = [r \in Runners |-> <<>>]
    /\ notifies = [r \in Runners |-> <<>>]
    /\ cur = [r \in Runners |-> NoJob]
    /\ run = [r \in Runners |-> NoRunResult]
    /\ fresh = [j \in JobIds |-> FALSE]
    /\ emails = [j \in JobIds |-> FALSE]
    /\ log = [r \in Runners |-> 0]

FsmIdle ==
    /\ t_job = [state |-> "unapproved", state_message |-> None]
    /\ t_call = NoCall

ResultIdle ==
    /\ res_parts = <<>>
    /\ res_state = None
    /\ res_pc = "idle"
    /\ res_value = None
    /\ gen_yields = <<>>
    /\ gen_got = <<>>
    /\ gen_return = None

NoPassword == [value |-> <<>>, template |-> <<>>]

PasswordIdle ==
    /\ pw = NoPassword
    /\ pw_twin = NoPassword
    /\ pw_prev = NoPassword
    /\ pw_tpl = <<>>
    /\ pw_pc = [at |-> "idle", wraps |-> 0]

NoHostCall == [node |-> None, returns |-> None, raised |-> FALSE, result |-> None]

HostIdle ==
    /\ rh_hosts = {}
    /\ rh_body = 0
    /\ rh_out = NoHostCall

NoDir == [mode |-> None, uid |-> 0, gid |-> 0]
NoSystem == [dir |-> NoDir, acl |-> <<>>, roles |-> {}]

IdemIdle ==
    /\ id_dir = NoDir
    /\ id_acl = <<>>
    /\ id_roles = {}
    /\ id_call = <<>>
    /\ id_res = None
    /\ id_repeat = FALSE
    /\ id_prev = NoSystem

SymlinkIdle ==
    /\ fs = <<>>
    /\ sl_call = <<>>
    /\ sl_res = None
    /\ sl_prev = <<>>

NoServer == [users |-> {}, dbs |-> {}, roles |-> <<>>]
NoSqlOut == [raised |-> FALSE, state |-> None, value |-> None]

SqlIdle ==
    /\ my_users = {}
    /\ my_dbs = {}
    /\ pg_roles = <<>>
    /\ sql_call = <<>>
    /\ sql_out = NoSqlOut
    /\ sql_sent = <<>>
    /\ sql_prev = NoServer

NameIdle ==
    /\ nm_owner = <<>>
    /\ nm_other = <<>>
    /\ nm_user = None
    /\ nm_other_user = None
    /\ nm_rev = None

NoMysql == [users |-> {}, grants |-> {}]
NoPgsql == [roles |-> <<>>, members |-> {}]

SyncIdle ==
    /\ sy_dialect = None
    /\ sy_soc = <<>>
    /\ sy_admins = {}
    /\ sy_my = NoMysql
    /\ sy_pg = NoPgsql
    /\ sy_res = None
    /\ sy_sent = {}
    /\ sy_prev = None
    /\ sy_calls = 0

ScrubIdle ==
    /\ sc_jobs = <<>>
    /\ sc_call = <<>>
    /\ sc_res = None
    /\ sc_deleted = {}

CreateIdle ==
    /\ cr_type = None
    /\ cr_in = None
    /\ cr_state = None

EmailIdle ==
    /\ em_current = None
    /\ em_blocks = <<>>
    /\ em_raised = FALSE
    /\ em_sent = 0
    /\ em_call = <<>>
    /\ em_res = None

MemberIdle ==
    /\ mb_row = <<>>
    /\ mb_call = <<>>
    /\ mb_raised = FALSE
    /\ mb_tasks = 0

SessionIdle ==
    /\ se_db = <<>>
    /\ se_sess = <<>>
    /\ se_pc = "off"
    /\ se_run = NoRunResult
    /\ se_before = <<>>
    /\ se_at_end = <<>>
    /\ se_runs = 0

AdminIdle ==
    /\ ad_soc = <<>>
    /\ ad_flags = <<>>
    /\ ad_job = <<>>
    /\ ad_pc = "off"
    /\ ad_out = <<>>
    /\ ad_calls = <<>>
    /\ ad_prev = <<>>
    /\ ad_row = <<>>
    /\ ad_jobs = 0

ListIdle ==
    /\ ml_listname = <<>>
    /\ ml_lists = {}
    /\ ml_pc = "off"
    /\ ml_out = <<>>

TkIdle ==
    /\ tk_task = "none"
    /\ tk_in = <<>>
    /\ tk_pc = "off"
    /\ tk_loc = <<>>
    /\ tk_world = <<>>
    /\ tk_trace = <<>>

\* the plumbing library is not in use
PlumbIdle == PasswordIdle /\ HostIdle /\ IdemIdle /\ SymlinkIdle /\ SqlIdle /\ NameIdle

SyncRestIdle == ScrubIdle /\ CreateIdle /\ EmailIdle /\ MemberIdle /\ SessionIdle /\ AdminIdle /\ ListIdle /\ TkIdle

ScrubRestIdle == SyncIdle /\ CreateIdle /\ EmailIdle /\ MemberIdle /\ SessionIdle /\ AdminIdle /\ ListIdle /\ TkIdle

CreateRestIdle == SyncIdle /\ ScrubIdle /\ EmailIdle /\ MemberIdle /\ SessionIdle /\ AdminIdle /\ ListIdle /\ TkIdle

EmailRestIdle == SyncIdle /\ ScrubIdle /\ CreateIdle /\ MemberIdle /\ SessionIdle /\ AdminIdle /\ ListIdle /\ TkIdle

MemberRestIdle == SyncIdle /\ ScrubIdle /\ CreateIdle /\ EmailIdle /\ SessionIdle /\ AdminIdle /\ ListIdle /\ TkIdle

SessionRestIdle == SyncIdle /\ ScrubIdle /\ CreateIdle /\ EmailIdle /\ MemberIdle /\ AdminIdle /\ ListIdle /\ TkIdle

AdminRestIdle == SyncIdle /\ ScrubIdle /\ CreateIdle /\ EmailIdle /\ MemberIdle /\ SessionIdle /\ ListIdle /\ TkIdle

ListRestIdle == SyncIdle /\ ScrubIdle /\ CreateIdle /\ EmailIdle /\ MemberIdle /\ SessionIdle /\ AdminIdle /\ TkIdle

TkRestIdle == SyncIdle /\ ScrubIdle /\ CreateIdle /\ EmailIdle /\ MemberIdle /\ SessionIdle /\ AdminIdle /\ ListIdle

\* the tasks are not in use
TaskIdle == SyncIdle /\ ScrubIdle /\ CreateIdle /\ EmailIdle /\ MemberIdle /\ SessionIdle /\ AdminIdle /\ ListIdle /\ TkIdle

\* the plumbing library and the tasks on it are not in use
LibIdle == PlumbIdle /\ TaskIdle

\* the runner, the jobs and the plumbing library are not in use
BaseIdle == RunnerInit /\ FsmIdle /\ ResultIdle /\ PlumbIdle

Init == RunnerInit /\ FsmIdle /\ ResultIdle /\ LibIdle

(***************************************************************************)
(* job_runner.py                                                           *)
(***************************************************************************)
Dead == {"off", "locked", "crashed", "killed"}

\* connect: a lock attempt that ignores the answer of pg_try_advisory_lock
connect_unlocked(holder, r) == [acquired |-> TRUE, holder |-> r]

\* connect: pg_try_advisory_lock(RUNNER_LOCK_NUM) on a new detached
\* connection; the lock is a session lock, it is held until the session ends
connect(holder, r) ==
    IF holder = NoRunner
    THEN [acquired |-> TRUE, holder |-> r]
    ELSE [acquired |-> FALSE, holder |-> holder]

\* queued_jobs: the ids of the rows with state = "queued"
queued_ids(rs) == {i \in DOMAIN rs : rs[i].state = "queued"}

\* queued_jobs without its backlog query
existing_skipped(rs) == {<<>>}

\* queued_jobs: the lists the backlog query can return; the query has no
\* ORDER BY, so the rows come in any order
existing(rs) == Orderings(queued_ids(rs))

\* notifications: notifies that are never handed to the caller
notifications_lost(n) == [ready |-> FALSE, payload |-> NoJob, rest |-> n]

\* notifications: conn.notifies.pop() takes the last element of the list
notifications(n) ==
    IF n = <<>>
    THEN [ready |-> FALSE, payload |-> NoJob, rest |-> n]
    ELSE [ready |-> TRUE, payload |-> Last(n), rest |-> Front(n)]

\* main: a state check that also lets running rows through
skip_unless_active(j) == j.state \notin {"queued", "running"}

\* main: `if job.state != "queued": sess.rollback(); continue`
skip(j) == j.state /= "queued"

Outcomes == {"return_none", "return_message", "jobfailed_none", "jobfailed_message",
             "exception"}

\* main: a result that records every handler outcome as done
run_result_done(outcome) ==
    [state |-> "done", message |-> "Completed", email |-> FALSE]

\* main: run_state, run_message and whether email_error is called, for each
\* way job.run can end
run_result(outcome) ==
    CASE outcome = "return_none" ->
            [state |-> "done", message |-> "Completed", email |-> FALSE]
      [] outcome = "return_message" ->
            [state |-> "done", message |-> "handler message", email |-> FALSE]
      [] outcome = "jobfailed_none" ->
            [state |-> "failed", message |-> "Aborted", email |-> TRUE]
      [] outcome = "jobfailed_message" ->
            [state |-> "failed", message |-> "failure message", email |-> TRUE]
      [] outcome = "exception" ->
            [state |-> "failed", message |-> "exception summary", email |-> TRUE]

\* The jobs of the model are ChangeSocietyAdmin jobs: resolve_references
\* raises KeyError when the target member is no longer in the members table
\* (CreateSociety.resolve_references raises likewise for a missing admin)
RefsOutcomes == BOOLEAN

\* the runner process ends: its session closes, which releases the lock and
\* drops the LISTEN registration with everything queued on the connection
Exit(r, how) ==
    /\ pc' = [pc EXCEPT ![r] = how]
    /\ lock_holder' = IF lock_holder = r THEN NoRunner ELSE lock_holder
    /\ listening' = listening \ {r}
    /\ notifies' = [notifies EXCEPT ![r] = <<>>]
    /\ existing_ids' = [existing_ids EXCEPT ![r] = <<>>]
    /\ cur' = [cur EXCEPT ![r] = NoJob]
    /\ run' = [run EXCEPT ![r] = NoRunResult]
    /\ log' = [log EXCEPT ![r] = 0]

\* python3 job_runner.py: a new process
StartRunner(r) ==
    /\ pc[r] = "off"
    /\ pc' = [pc EXCEPT ![r] = "connect"]
    /\ UNCHANGED <<rows, lock_holder, listening, existing_ids, notifies, cur, run>>
    /\ UNCHANGED <<hist_vars, fsm_vars, result_vars, lib_vars>>

\* connect()
Connect(r) ==
    /\ pc[r] = "connect"
    /\ LET c == connect(lock_holder, r)
       IN  IF c.acquired
           THEN /\ lock_holder' = c.holder
                /\ listening' = listening \cup {r}
                /\ pc' = [pc EXCEPT ![r] = "query"]
           ELSE /\ pc' = [pc EXCEPT ![r] = "locked"]
                /\ UNCHANGED <<lock_holder, listening>>
    /\ UNCHANGED <<rows, existing_ids, notifies, cur, run, hist_vars, fsm_vars, result_vars, lib_vars>>

\* queued_jobs(): the backlog query and its commit
Backlog(r) ==
    /\ pc[r] = "query"
    /\ \E ids \in existing(rows) : existing_ids' = [existing_ids EXCEPT ![r] = ids]
    /\ pc' = [pc EXCEPT ![r] = "next"]
    /\ UNCHANGED <<rows, lock_holder, listening, notifies, cur, run>>
    /\ UNCHANGED <<hist_vars, fsm_vars, result_vars, lib_vars>>

\* queued_jobs(): the next id, from the backlog and then from notifications()
Yield(r) ==
    /\ pc[r] \in {"next", "skipped"}
    /\ IF existing_ids[r] /= <<>>
       THEN /\ cur' = [cur EXCEPT ![r] = Head(existing_ids[r])]
            /\ existing_ids' = [existing_ids EXCEPT ![r] = Tail(@)]
            /\ UNCHANGED notifies
       ELSE LET n == notifications(notifies[r])
            IN  /\ n.ready
                /\ cur' = [cur EXCEPT ![r] = n.payload]
                /\ notifies' = [notifies EXCEPT ![r] = n.rest]
                /\ UNCHANGED existing_ids
    /\ pc' = [pc EXCEPT ![r] = "find"]
    /\ log' = [log EXCEPT ![r] = 0]
    /\ UNCHANGED <<rows, lock_holder, listening, run, fresh, emails, fsm_vars, result_vars, lib_vars>>

\* main: Job.find(id=i) and the state check
Find(r, refs_ok) ==
    /\ pc[r] = "find"
    /\ IF ~refs_ok
       THEN Exit(r, "crashed")
       ELSE /\ pc' = [pc EXCEPT ![r] = IF skip(rows[cur[r]]) THEN "skipped" ELSE "claim"]
            /\ UNCHANGED <<lock_holder, listening, existing_ids, notifies, cur, run, log>>
    /\ UNCHANGED <<rows, fresh, emails, fsm_vars, result_vars, lib_vars>>

\* main: the "started" log entry, set_state("running"), commit; job.run starts
Claim(r) ==
    /\ pc[r] = "claim"
    /\ rows' = [rows EXCEPT ![cur[r]] = set_state(@, "running", "Running")]
    /\ log' = [log EXCEPT ![r] = @ + 1]
    /\ fresh' = [fresh EXCEPT ![cur[r]] = FALSE]
    /\ emails' = [emails EXCEPT ![cur[r]] = FALSE]
    /\ pc' = [pc EXCEPT ![r] = "run"]
    /\ UNCHANGED <<lock_holder, listening, existing_ids, notifies, cur, run>>
    /\ UNCHANGED <<fsm_vars, result_vars, lib_vars>>

\* main: job.run ends; the outcome is logged and, for a failure, mailed.
\* refs_ok: Job.find after the rollback does not raise; mail_ok: the mail
\* is accepted by the SMTP server
Handle(r, outcome, refs_ok, mail_ok) ==
    /\ pc[r] = "run"
    /\ LET res == run_result(outcome)
           raises == \/ outcome = "exception" /\ ~refs_ok
                     \/ res.email /\ ~mail_ok
       IN  /\ refs_ok \/ outcome = "exception"
           /\ mail_ok \/ (res.email /\ refs_ok)
           /\ IF raises
              THEN /\ Exit(r, "crashed")
                   /\ UNCHANGED emails
              ELSE /\ emails' = [emails EXCEPT ![cur[r]] = res.email]
                   /\ log' = [log EXCEPT ![r] = @ + 1]
                   /\ run' = [run EXCEPT ![r] = [outcome |-> outcome, state |-> res.state,
                                                 message |-> res.message]]
                   /\ pc' = [pc EXCEPT ![r] = "commit"]
                   /\ UNCHANGED <<lock_holder, listening, existing_ids, notifies, cur>>
    /\ UNCHANGED <<rows, fresh, fsm_vars, result_vars, lib_vars>>

\* main: job.set_state(run_state, run_message); sess.add(job.row); sess.commit()
Commit(r) ==
    /\ pc[r] = "commit"
    /\ rows' = [rows EXCEPT ![cur[r]] = set_state(@, run[r].state, run[r].message)]
    /\ pc' = [pc EXCEPT ![r] = "next"]
    /\ cur' = [cur EXCEPT ![r] = NoJob]
    /\ run' = [run EXCEPT ![r] = NoRunResult]
    /\ UNCHANGED <<lock_holder, listening, existing_ids, notifies>>
    /\ UNCHANGED <<hist_vars, fsm_vars, result_vars, lib_vars>>

\* SIGKILL of a runner process
Kill(r) ==
    /\ pc[r] \notin Dead
    /\ Exit(r, "killed")
    /\ UNCHANGED <<rows, fresh, emails, fsm_vars, result_vars, lib_vars>>

(***************************************************************************)
(* Submitters and operators                                                *)
(***************************************************************************)
\* the insert trigger of the jobs table: NOTIFY jobs_insert, <new.job_id>
\* is queued on every connection that listens
jobs_insert(n, l, id) == [r \in Runners |-> IF r \in l THEN Append(n[r], id) ELSE n[r]]

\* a submitter commits the row made by Job.create
Insert(require_approval) ==
    /\ Len(rows) < MaxJobs
    /\ \A r \in Runners : Len(notifies[r]) < MaxNotifies
    /\ LET id == Len(rows) + 1
           st == create(require_approval)
       IN  /\ rows' = Append(rows, [state |-> st, state_message |-> None])
           /\ notifies' = jobs_insert(notifies, listening, id)
           /\ fresh' = [fresh EXCEPT ![id] = (st = "queued")]
    /\ UNCHANGED <<lock_holder, listening, pc, existing_ids, cur, run>>
    /\ UNCHANGED <<emails, log, fsm_vars, result_vars, lib_vars>>

\* an operator calls Job.transition on a row and commits; a call that raises
\* JobActionInvalid commits nothing
Transition(i, action) ==
    /\ i \in DOMAIN rows
    /\ LET t == transition(rows[i], action, None)
       IN  /\ ~t.raised
           /\ rows' = [rows EXCEPT ![i] = t.job]
           /\ fresh' = [fresh EXCEPT ![i] = @ \/ t.job.state = "queued"]
    /\ UNCHANGED <<runner_vars, emails, log, fsm_vars, result_vars, lib_vars>>

\* NOTIFY jobs_insert for an id that was notified before
Renotify(i) ==
    /\ i \in DOMAIN rows
    /\ listening /= {}
    /\ \A r \in Runners : Len(notifies[r]) < MaxNotifies
    /\ notifies' = jobs_insert(notifies, listening, i)
    /\ UNCHANGED <<rows, lock_holder, listening, pc, existing_ids, cur, run>>
    /\ UNCHANGED <<hist_vars, fsm_vars, result_vars, lib_vars>>

Next ==
    \/ \E r \in Runners : StartRunner(r)
    \/ \E r \in Runners : Connect(r)
    \/ \E r \in Runners : Backlog(r)
    \/ \E r \in Runners : Yield(r)
    \/ \E r \in Runners, refs_ok \in RefsOutcomes : Find(r, refs_ok)
    \/ \E r \in Runners : Claim(r)
    \/ \E r \in Runners, o \in Outcomes, refs_ok \in RefsOutcomes, mail_ok \in BOOLEAN :
          Handle(r, o, refs_ok, mail_ok)
    \/ \E r \in Runners : Commit(r)
    \/ \E r \in Runners : Kill(r)
    \/ \E a \in BOOLEAN : Insert(a)
    \/ \E i \in JobIds, a \in ActionNames : Transition(i, a)
    \/ \E i \in JobIds : Renotify(i)

Spec == Init /\ [][Next]_vars

\* the steps of a started runner process: the process runs until it exits,
\* and select() returns when a notification is queued on the connection
RunnerStep(r) ==
    \/ Connect(r)
    \/ Backlog(r)
    \/ Yield(r)
    \/ \E refs_ok \in RefsOutcomes : Find(r, refs_ok)
    \/ Claim(r)
    \/ \E o \in Outcomes, refs_ok \in RefsOutcomes, mail_ok \in BOOLEAN :
          Handle(r, o, refs_ok, mail_ok)
    \/ Commit(r)

FairSpec == Spec /\ \A r \in Runners : WF_vars(RunnerStep(r))

\* runner start-up against submitters: rows are inserted at any point of
\* connect() and queued_jobs(), and no operator touches them
StartupNext ==
    \/ \E r \in Runners : StartRunner(r)
    \/ \E r \in Runners : Connect(r)
    \/ \E r \in Runners : Backlog(r)
    \/ \E r \in Runners : Yield(r)
    \/ \E r \in Runners, refs_ok \in RefsOutcomes : Find(r, refs_ok)
    \/ \E r \in Runners : Claim(r)
    \/ \E r \in Runners, o \in Outcomes, refs_ok \in RefsOutcomes, mail_ok \in BOOLEAN :
          Handle(r, o, refs_ok, mail_ok)
    \/ \E r \in Runners : Commit(r)
    \/ \E r \in Runners : Kill(r)
    \/ \E a \in BOOLEAN : Insert(a)

SpecStartup == Init /\ [][StartupNext]_vars

(***************************************************************************)
(* Job.transition on its own: any job, any sequence of calls               *)
(***************************************************************************)
FsmMessages == {None, "note", "Completed"}

FsmInit ==
    /\ RunnerInit
    /\ ResultIdle
    /\ LibIdle
    /\ t_job \in [state : JobStates, state_message : FsmMessages]
    /\ t_call = NoCall

\* job.transition(action, message)
Call(action, message) ==
    /\ LET t == transition(t_job, action, message)
       IN  /\ t_job' = t.job
           /\ t_call' = [action |-> action, message |-> message, raised |-> t.raised,
                         old |-> t_job]
    /\ UNCHANGED <<rows, runner_vars, hist_vars, result_vars, lib_vars>>

FsmNext == \E a \in ActionNames, m \in {None, "note"} : Call(a, m)

SpecFsm == FsmInit /\ [][FsmNext]_vars

(***************************************************************************)
(* plumbing/common.py: State, Result                                       *)
(***************************************************************************)
States == {"unchanged", "success", "created"}

\* State.value
value(st) == CASE st = "unchanged" -> 0 [] st = "success" -> 1 [] st = "created" -> 2

\* State.__bool__; None is false as well
truthy(st) == st /= None /\ value(st) /= 0

\* `State.created in self.parts`: the parts are Result objects, and Result
\* defines no __eq__, so no part ever compares equal to a State
state_in(st, parts) == FALSE

RECURSIVE state(_)
\* Result.state; any(self.parts) calls Result.__bool__, which is
\* bool(part.state), on every part
state(res) ==
    IF truthy(res.state)
    THEN res.state
    ELSE IF \E k \in DOMAIN res.parts : truthy(state(res.parts[k]))
    THEN IF state_in("created", res.parts) THEN "created" ELSE "success"
    ELSE "unchanged"

\* Result(state): a leaf
Leaf(st) == [state |-> st, parts |-> <<>>]

\* the Results a task yields: leaves of every state, leaves without a state,
\* and composites of one leaf
Children ==
    {Leaf(st) : st \in States \cup {None}}
        \cup {[state |-> None, parts |-> <<Leaf(st)>>] : st \in States}

\* Result.collect: cls(state, value, parts, fn) with state = None, and the
\* state the caller may set afterwards
Composite == [state |-> res_state, parts |-> res_parts]

\* Result.__bool__: bool(self.state), read from _state alone
Result_bool_raw(res) == truthy(res.state)

\* Result.__bool__: bool(self.state)
Result_bool(res) == truthy(state(res))

\* the two ways a task hands a child to Result.collect
YieldForms == {"yield", "yield_from"}

\* what the task's pending yield expression evaluates to when Result.collect
\* resumes the generator with next(gen): `yield from child` runs
\* Result.__iter__ to its end, which returns the child; a plain `yield` gets
\* the value sent, and next(gen) sends None (written <<>>)
resumed(y) == IF y.form = "yield_from" THEN <<y.result>> ELSE <<>>

\* the generator is resumed: its pending yield expression, if any, gets its value
got(yields, g) == IF yields = <<>> THEN g ELSE Append(g, resumed(Last(yields)))

ResultInit ==
    /\ RunnerInit
    /\ FsmIdle
    /\ LibIdle
    /\ res_parts = <<>>
    /\ res_state = None
    /\ res_pc = "collect"
    /\ res_value = None
    /\ gen_yields = <<>>
    /\ gen_got = <<>>
    /\ gen_return = None

\* Result.collect: result = next(gen), the task runs to its next yield
Collect(child, form) ==
    /\ res_pc = "collect"
    /\ Len(gen_yields) < MaxParts
    /\ gen_got' = got(gen_yields, gen_got)
    /\ gen_yields' = Append(gen_yields, [result |-> child, form |-> form])
    /\ res_pc' = "append"
    /\ UNCHANGED <<res_parts, res_state, res_value, gen_return>>
    /\ UNCHANGED <<rows, runner_vars, hist_vars, fsm_vars, lib_vars>>

\* Result.collect: parts.append(result)
AppendPart ==
    /\ res_pc = "append"
    /\ res_parts' = Append(res_parts, Last(gen_yields).result)
    /\ res_pc' = "collect"
    /\ UNCHANGED <<res_state, res_value, gen_yields, gen_got, gen_return>>
    /\ UNCHANGED <<rows, runner_vars, hist_vars, fsm_vars, lib_vars>>

\* Result.collect: next(gen) raises StopIteration, value = ex.value, and the
\* composite cls(state, value, parts, fn) is returned
Return(v) ==
    /\ res_pc = "collect"
    /\ gen_got' = got(gen_yields, gen_got)
    /\ gen_return' = v
    /\ res_value' = v
    /\ res_pc' = "returned"
    /\ UNCHANGED <<res_parts, res_state, gen_yields>>
    /\ UNCHANGED <<rows, runner_vars, hist_vars, fsm_vars, lib_vars>>

\* the state setter of Result
SetState(st) ==
    /\ res_pc = "returned"
    /\ res_state' = st
    /\ UNCHANGED <<res_parts, res_pc, res_value, gen_yields, gen_got, gen_return>>
    /\ UNCHANGED <<rows, runner_vars, hist_vars, fsm_vars, lib_vars>>

ResultNext ==
    \/ \E c \in Children, f \in YieldForms : Collect(c, f)
    \/ AppendPart
    \/ \E v \in {None, "value"} : Return(v)
    \/ \E st \in States : SetState(st)

SpecResult == ResultInit /\ [][ResultNext]_vars

(***************************************************************************)
(* plumbing/common.py: Password.  Strings are sequences of characters.     *)
(***************************************************************************)
\* str.format raised (ValueError, KeyError or IndexError)
Raised == [raised |-> TRUE, out |-> <<>>]

\* text put in front of the rest of a formatted string
Prepend(text, r) == IF r.raised THEN Raised ELSE [raised |-> FALSE, out |-> text \o r.out]

RECURSIVE format_from(_, _, _, _)
\* str.format(arg) from position k of template t, after n replacement
\* fields: "{{" and "}}" give one brace, "{}" is the next positional field
\* (only field 0 has an argument), any other "{" or "}" raises
format_from(t, k, arg, n) ==
    IF k > Len(t) THEN [raised |-> FALSE, out |-> <<>>]
    ELSE IF t[k] = "{"
    THEN IF k < Len(t) /\ t[k + 1] = "{"
         THEN Prepend(<<"{">>, format_from(t, k + 2, arg, n))
         ELSE IF k < Len(t) /\ t[k + 1] = "}" /\ n = 0
         THEN Prepend(arg, format_from(t, k + 2, arg, n + 1))
         ELSE Raised
    ELSE IF t[k] = "}"
    THEN IF k < Len(t) /\ t[k + 1] = "}"
         THEN Prepend(<<"}">>, format_from(t, k + 2, arg, n))
         ELSE Raised
    ELSE Prepend(<<t[k]>>, format_from(t, k + 1, arg, n))

\* template.format(arg)
format(t, arg) == format_from(t, 1, arg, 0)

\* Password(value, template)
Password(secret, template) == [value |-> secret, template |-> template]

\* Password.__str__
Password_str(p) == format(p.template, p.value)

\* Password.__repr__: "<{}: {!r}>".format("Password", template.format("***"))
Password_repr(p) ==
    Prepend(<<"<Password: '">>,
            LET f == format(p.template, <<"*", "*", "*">>)
            IN  IF f.raised THEN Raised ELSE [raised |-> FALSE, out |-> f.out \o <<"'>">>])

\* Password.wrap: self.__class__(self._value, template.format(self._template))
wrap(p, template) ==
    LET f == format(template, p.template)
    IN  [raised |-> f.raised, password |-> Password(p.value, f.out)]

\* the characters of templates: a letter, a separator and the braces
TemplateChars == {"u", ":", "{", "}"}

\* the characters of secrets, none of which is in a template or in the
\* text __repr__ adds
SecretChars == {"s", "t"}
Secrets == {<<"s">>, <<"t">>, <<"s", "t">>}

StringsOver(chars, n) == UNION {[1..m -> chars] : m \in 0..n}

\* the templates with exactly one replacement field that format accepts
Templates ==
    {t \in StringsOver(TemplateChars, MaxTemplate) :
        LET f == format(t, <<"s">>) IN ~f.raised /\ "s" \in Range(f.out)}

PasswordInit ==
    /\ RunnerInit
    /\ FsmIdle
    /\ ResultIdle
    /\ \E s1, s2 \in Secrets, t \in Templates :
          /\ pw = Password(s1, t)
          /\ pw_twin = Password(s2, t)
    /\ pw_prev = NoPassword
    /\ pw_tpl = <<>>
    /\ pw_pc = [at |-> "made", wraps |-> 0]
    /\ HostIdle
    /\ IdemIdle
    /\ SymlinkIdle
    /\ SqlIdle
    /\ NameIdle
    /\ TaskIdle

\* p.wrap(template), on both objects
Wrap(template) ==
    /\ pw_pc.at \in {"made", "wrapped"}
    /\ pw_pc.wraps < MaxWraps
    /\ LET w == wrap(pw, template)
           v == wrap(pw_twin, template)
       IN  /\ pw' = w.password
           /\ pw_twin' = v.password
           /\ pw_pc' = [at |-> IF w.raised THEN "raised" ELSE "wrapped",
                        wraps |-> pw_pc.wraps + 1]
    /\ pw_prev' = pw
    /\ pw_tpl' = template
    /\ UNCHANGED <<rows, runner_vars, hist_vars, fsm_vars, result_vars, host_vars, idem_vars>>
    /\ UNCHANGED <<symlink_vars, sql_vars, name_vars, task_vars>>

PasswordNext == \E t \in Templates : Wrap(t)

SpecPassword == PasswordInit /\ [][PasswordNext]_vars

(***************************************************************************)
(* plumbing/common.py: require_host                                        *)
(***************************************************************************)
\* hostnames: the hosts of plumbing/hosts.py and a machine that is none of them
HostNames == {"pip", "sinkhole", "here"}
Nodes == HostNames \cup {"not-here"}

\* what the wrapped functions return
HostResults == {"unchanged", "success", "created"}

\* inner() of a wrapper that calls the function on any host
require_host_unchecked(hosts, node, returns) ==
    [raised |-> FALSE, ran |-> TRUE, result |-> returns]

\* inner() of require_host(*hosts)(fn), called when platform.node() is node
\* and fn would return `returns`: whether it raised RuntimeError, whether
\* the body of fn ran, and what was returned
require_host(hosts, node, returns) ==
    IF node \notin hosts
    THEN [raised |-> TRUE, ran |-> FALSE, result |-> None]
    ELSE [raised |-> FALSE, ran |-> TRUE, result |-> returns]

\* @require_host(h1, ..., hn)
HostInit ==
    /\ RunnerInit
    /\ FsmIdle
    /\ ResultIdle
    /\ PasswordIdle
    /\ rh_hosts \in SUBSET HostNames
    /\ rh_body = 0
    /\ rh_out = NoHostCall
    /\ IdemIdle
    /\ SymlinkIdle
    /\ SqlIdle
    /\ NameIdle
    /\ TaskIdle

\* a call of the wrapped function
CallWrapped(node, returns) ==
    /\ rh_body < MaxCalls
    /\ LET c == require_host(rh_hosts, node, returns)
       IN  /\ rh_body' = IF c.ran THEN rh_body + 1 ELSE rh_body
           /\ rh_out' = [node |-> node, returns |-> returns, raised |-> c.raised,
                         result |-> c.result]
    /\ UNCHANGED <<rh_hosts, rows, runner_vars, hist_vars, fsm_vars, result_vars, pw_vars>>
    /\ UNCHANGED <<idem_vars, symlink_vars, sql_vars, name_vars, task_vars>>

HostNext == \E n \in Nodes, v \in HostResults : CallWrapped(n, v)

SpecHost == HostInit /\ [][HostNext]_vars

(***************************************************************************)
(* Plumbing primitives called twice: unix.mkdir, unix.set_nfs_acl,         *)
(* pgsql.drop_user                                                         *)
(***************************************************************************)
\* `state or State.success`
state_or(st, other) == IF truthy(st) THEN st ELSE other

\* the process runs as root; a new directory belongs to root
RootUid == 0
RootGid == 0

\* pwd entries handed to mkdir: pw_uid, pw_gid
Users == {[pw_uid |-> 0, pw_gid |-> 0], [pw_uid |-> 1001, pw_gid |-> 1001]}

\* directory modes: the mode os.mkdir is given and the two create_home uses
Modes == {"0700", "2770", "2775"}

\* unix.mkdir(target, user, mode): the directory afterwards and the state
mkdir(dir, user, mode) ==
    LET made == IF dir.mode = None
                THEN [mode |-> "0700", uid |-> RootUid, gid |-> RootGid]
                ELSE dir
        st1 == IF dir.mode = None THEN "created" ELSE "unchanged"
        st2 == IF made.mode /= mode THEN state_or(st1, "success") ELSE st1
        st3 == IF made.uid /= user.pw_uid \/ made.gid /= user.pw_gid
               THEN state_or(st2, "success") ELSE st2
    IN  [dir |-> [mode |-> mode, uid |-> user.pw_uid, gid |-> user.pw_gid],
         state |-> st3]

\* _ACL_ALIASES; permission strings are sets of characters
ACL_ALIASES ==
    [R |-> {"r", "n", "t", "c", "y"},
     W |-> {"w", "a", "t", "T", "N", "c", "C", "y", "D"},
     X |-> {"x", "t", "c", "y"}]

\* _unalias_acl
unalias_acl(perms) ==
    UNION {IF c \in DOMAIN ACL_ALIASES THEN ACL_ALIASES[c] ELSE {c} : c \in perms}

\* get_nfs_acl: the permissions of allow entries of the user that no deny
\* entry of the user names, whatever the order of the entries
get_nfs_acl(acl, user) ==
    LET allowed == UNION {acl[k].perms : k \in {j \in DOMAIN acl :
                            acl[j].principal = user /\ acl[j].type = "A"}}
        denied == UNION {acl[k].perms : k \in {j \in DOMAIN acl :
                            acl[j].principal = user /\ acl[j].type = "D"}}
    IN  allowed \ denied

\* set_nfs_acl: nfs4_setfacl -a puts the new entry in front of the list
set_nfs_acl(acl, user, perms) ==
    LET p == unalias_acl(perms)
    IN  IF p \subseteq get_nfs_acl(acl, user)
        THEN [acl |-> acl, state |-> "unchanged"]
        ELSE [acl |-> <<[type |-> "A", principal |-> user, perms |-> p]>> \o acl,
              state |-> "success"]

\* pgsql.drop_user: DROP USER IF EXISTS
drop_user(roles, name) == [roles |-> roles \ {name}, state |-> "success"]

Principals == {"Debian-exim", "www-data"}
PermStrings == {{"R"}, {"X"}, {"R", "X"}}
Aces == [type : {"A", "D"}, principal : Principals, perms : {unalias_acl(p) : p \in PermStrings}]
RoleNames == {"spqr2", "test"}

System == [dir |-> id_dir, acl |-> id_acl, roles |-> id_roles]

IdemInit ==
    /\ RunnerInit
    /\ FsmIdle
    /\ ResultIdle
    /\ PasswordIdle
    /\ HostIdle
    /\ id_dir \in {NoDir} \cup [mode : Modes, uid : {0, 1001}, gid : {0}]
    /\ id_acl \in UNION {[1..n -> Aces] : n \in 0..(MaxAces - 2)}
    /\ id_roles \in SUBSET RoleNames
    /\ id_call = <<>>
    /\ id_res = None
    /\ id_repeat = FALSE
    /\ id_prev = NoSystem
    /\ SymlinkIdle
    /\ SqlIdle
    /\ NameIdle
    /\ TaskIdle

\* what every plumbing call records
Called(call, st) ==
    /\ id_call' = call
    /\ id_res' = st
    /\ id_repeat' = (id_call = call)
    /\ id_prev' = System
    /\ UNCHANGED <<rows, runner_vars, hist_vars, fsm_vars, result_vars, pw_vars, host_vars>>
    /\ UNCHANGED <<symlink_vars, sql_vars, name_vars, task_vars>>

Mkdir(user, mode) ==
    /\ LET m == mkdir(id_dir, user, mode)
       IN  /\ id_dir' = m.dir
           /\ Called(<<"mkdir", user, mode>>, m.state)
    /\ UNCHANGED <<id_acl, id_roles>>

SetNfsAcl(user, perms) ==
    /\ Len(id_acl) < MaxAces
    /\ LET a == set_nfs_acl(id_acl, user, perms)
       IN  /\ id_acl' = a.acl
           /\ Called(<<"set_nfs_acl", user, perms>>, a.state)
    /\ UNCHANGED <<id_dir, id_roles>>

DropUser(name) ==
    /\ LET d == drop_user(id_roles, name)
       IN  /\ id_roles' = d.roles
           /\ Called(<<"drop_user", name>>, d.state)
    /\ UNCHANGED <<id_dir, id_acl>>

IdemNext ==
    \/ \E u \in Users, m \in Modes : Mkdir(u, m)
    \/ \E u \in Principals, p \in PermStrings : SetNfsAcl(u, p)
    \/ \E n \in RoleNames : DropUser(n)

SpecIdem == IdemInit /\ [][IdemNext]_vars

(***************************************************************************)
(* plumbing/unix.py: symlink                                               *)
(***************************************************************************)
Paths == {"/home/abc1/test", "/home/abc1/public_html"}
Targets == {"/societies/test", "/public/home/abc1/public_html"}

Absent == [kind |-> "absent", to |-> None]
Link(target) == [kind |-> "link", to |-> target]
Entries == {Absent, [kind |-> "file", to |-> None], [kind |-> "dir", to |-> None]}
               \cup {Link(t) : t \in Targets}

\* os.readlink(link), None for OSError (nothing there, or not a link)
readlink(entry) == IF entry.kind = "link" THEN entry.to ELSE None

\* a symlink that replaces whatever is at the path
symlink_overwrite(entry, target, needed) ==
    LET valid == readlink(entry) = target
    IN  IF valid = needed THEN [entry |-> entry, state |-> "unchanged"]
        ELSE IF needed THEN [entry |-> Link(target), state |-> "created"]
        ELSE [entry |-> Absent, state |-> "success"]

\* unix.symlink(link, target, needed) where entry is at the link path:
\* os.symlink raises FileExistsError when anything is at the path
symlink(entry, target, needed) ==
    LET valid == readlink(entry) = target
    IN  IF valid = needed THEN [entry |-> entry, state |-> "unchanged"]
        ELSE IF needed
        THEN IF entry.kind /= "absent"
             THEN [entry |-> entry, state |-> "unchanged"]
             ELSE [entry |-> Link(target), state |-> "created"]
        ELSE [entry |-> Absent, state |-> "success"]

SymlinkInit ==
    /\ RunnerInit
    /\ FsmIdle
    /\ ResultIdle
    /\ PasswordIdle
    /\ HostIdle
    /\ IdemIdle
    /\ SqlIdle
    /\ NameIdle
    /\ TaskIdle
    /\ fs \in [Paths -> Entries]
    /\ sl_call = <<>>
    /\ sl_res = None
    /\ sl_prev = <<>>

Symlink(link, target, needed) ==
    /\ LET r == symlink(fs[link], target, needed)
       IN  /\ fs' = [fs EXCEPT ![link] = r.entry]
           /\ sl_res' = r.state
    /\ sl_call' = <<link, target, needed>>
    /\ sl_prev' = fs
    /\ UNCHANGED <<rows, runner_vars, hist_vars, fsm_vars, result_vars>>
    /\ UNCHANGED <<pw_vars, host_vars, idem_vars, sql_vars, name_vars, task_vars>>

SymlinkNext == \E l \in Paths, t \in Targets, n \in BOOLEAN : Symlink(l, t, n)

SpecSymlink == SymlinkInit /\ [][SymlinkNext]_vars

(***************************************************************************)
(* plumbing/mysql.py and plumbing/pgsql.py.  Names and SQL text are        *)
(* sequences of characters and of pieces of text.                          *)
(***************************************************************************)
\* the double quote and the backtick character
DQ == "<U+0022>"
BQ == "<U+0060>"

\* a plain name, and names with the identifier quote of each dialect
SqlNames == {<<"a">>, <<"a", DQ>>, <<"a", BQ>>}

\* Password.new()
NewPassword == "Password.new()"

\* str.replace(old, new) for a character old
RECURSIVE replace(_, _, _)
replace(text, old, new) ==
    IF text = <<>> THEN <<>>
    ELSE (IF Head(text) = old THEN new ELSE <<Head(text)>>) \o replace(Tail(text), old, new)

\* mysql._format: the literal goes between backticks, with % and the backtick doubled
mysql_format(sql, lit) ==
    format(sql, <<BQ>> \o replace(replace(lit, "%", <<"%", "%">>), BQ, <<BQ, BQ>>)
                    \o <<BQ>>)

\* pgsql._format: ValueError when a literal has a double quote in it
pgsql_format(sql, lit) ==
    IF DQ \in Range(lit) THEN Raised ELSE format(sql, <<DQ>> \o lit \o <<DQ>>)

\* query(cursor, sql, *args): what goes to the server
Statement(sql, args) == [sql |-> sql, args |-> args]

\* f with key k set to v
With(f, k, v) == [n \in DOMAIN f \cup {k} |-> IF n = k THEN v ELSE f[n]]

\* mysql.ensure_user that does not look for the user first
mysql_ensure_user_recreate(users, name) ==
    [raised |-> FALSE, users |-> users \cup {name}, state |-> "created",
     value |-> NewPassword,
     sent |-> <<Statement(<<"CREATE USER %s@%s IDENTIFIED BY %s">>,
                          <<name, "%", NewPassword>>)>>]

\* mysql.ensure_user; get_users finds the name under any host
mysql_ensure_user(users, name) ==
    LET select == Statement(<<"SELECT User FROM mysql.user WHERE User IN %s">>, <<name>>)
    IN  IF name \in users
        THEN [raised |-> FALSE, users |-> users, state |-> "unchanged", value |-> None,
              sent |-> <<select>>]
        ELSE [raised |-> FALSE, users |-> users \cup {name}, state |-> "created",
              value |-> NewPassword,
              sent |-> <<select, Statement(<<"CREATE USER %s@%s IDENTIFIED BY %s">>,
                                           <<name, "%", NewPassword>>)>>]

\* mysql.create_database; ER.DB_CREATE_EXISTS gives unchanged
mysql_create_database(dbs, name) ==
    LET f == mysql_format(<<"CREATE DATABASE ", "{", "}">>, name)
    IN  [raised |-> f.raised, dbs |-> IF f.raised THEN dbs ELSE dbs \cup {name},
         state |-> IF name \in dbs THEN "unchanged" ELSE "created", value |-> None,
         sent |-> IF f.raised THEN <<>> ELSE <<Statement(f.out, <<>>)>>]

\* pgsql._create_user
pgsql_create_user(roles, name) ==
    LET f == pgsql_format(<<"CREATE USER ", "{", "}",
                            " ENCRYPTED PASSWORD %s NOCREATEDB NOCREATEUSER">>, name)
    IN  IF f.raised
        THEN [raised |-> TRUE, roles |-> roles, result |-> Leaf(None), value |-> None,
              sent |-> <<>>]
        ELSE [raised |-> FALSE, roles |-> With(roles, name, TRUE),
              result |-> Leaf("created"), value |-> NewPassword,
              sent |-> <<Statement(f.out, <<NewPassword>>)>>]

\* pgsql.enable_role for role (name, rolcanlogin)
enable_role(roles, name) ==
    LET f == pgsql_format(<<"ALTER ROLE ", "{", "}", " LOGIN">>, name)
    IN  IF roles[name]
        THEN [raised |-> FALSE, roles |-> roles, result |-> Leaf("unchanged"), sent |-> <<>>]
        ELSE IF f.raised
        THEN [raised |-> TRUE, roles |-> roles, result |-> Leaf(None), sent |-> <<>>]
        ELSE [raised |-> FALSE, roles |-> With(roles, name, TRUE),
              result |-> Leaf("success"), sent |-> <<Statement(f.out, <<>>)>>]

\* pgsql.ensure_user, a Result.collect task: get_role, then _create_user or
\* enable_role as the only part
pgsql_ensure_user(roles, name) ==
    LET select == Statement(<<"SELECT rolname, rolcanlogin FROM pg_roles WHERE rolname = %s">>,
                            <<name>>)
    IN  IF name \notin DOMAIN roles
        THEN LET c == pgsql_create_user(roles, name)
             IN  [raised |-> c.raised, roles |-> c.roles,
                  state |-> state([state |-> None, parts |-> <<c.result>>]),
                  value |-> c.value, sent |-> <<select>> \o c.sent]
        ELSE LET e == enable_role(roles, name)
             IN  [raised |-> e.raised, roles |-> e.roles,
                  state |-> state([state |-> None, parts |-> <<e.result>>]),
                  value |-> None, sent |-> <<select>> \o e.sent]

\* pgsql.reset_password; the server refuses ALTER USER for a missing role
pgsql_reset_password(roles, name) ==
    LET f == pgsql_format(<<"ALTER USER ", "{", "}", " PASSWORD %s">>, name)
    IN  IF f.raised
        THEN [raised |-> TRUE, state |-> None, value |-> None, sent |-> <<>>]
        ELSE [raised |-> name \notin DOMAIN roles,
              state |-> IF name \in DOMAIN roles THEN "success" ELSE None,
              value |-> IF name \in DOMAIN roles THEN NewPassword ELSE None,
              sent |-> <<Statement(f.out, <<NewPassword>>)>>]

Server == [users |-> my_users, dbs |-> my_dbs, roles |-> pg_roles]

SqlInit ==
    /\ RunnerInit
    /\ FsmIdle
    /\ ResultIdle
    /\ PasswordIdle
    /\ HostIdle
    /\ IdemIdle
    /\ SymlinkIdle
    /\ NameIdle
    /\ TaskIdle
    /\ my_users \in SUBSET SqlNames
    /\ my_dbs = {}
    /\ pg_roles \in UNION {[S -> BOOLEAN] : S \in SUBSET SqlNames}
    /\ sql_call = <<>>
    /\ sql_out = NoSqlOut
    /\ sql_sent = <<>>
    /\ sql_prev = NoServer

\* what every call of the SQL plumbing records
SqlCalled(dialect, fn, name, r) ==
    /\ sql_call' = <<dialect, fn, name>>
    /\ sql_out' = [raised |-> r.raised, state |-> IF r.raised THEN None ELSE r.state,
                   value |-> IF r.raised THEN None ELSE r.value]
    /\ sql_sent' = r.sent
    /\ sql_prev' = Server
    /\ UNCHANGED <<rows, runner_vars, hist_vars, fsm_vars, result_vars>>
    /\ UNCHANGED <<pw_vars, host_vars, idem_vars, symlink_vars, name_vars, task_vars>>

MysqlEnsureUser(name) ==
    /\ LET r == mysql_ensure_user(my_users, name)
       IN  /\ my_users' = r.users
           /\ SqlCalled("mysql", "ensure_user", name, r)
    /\ UNCHANGED <<my_dbs, pg_roles>>

MysqlCreateDatabase(name) ==
    /\ LET r == mysql_create_database(my_dbs, name)
       IN  /\ my_dbs' = r.dbs
           /\ SqlCalled("mysql", "create_database", name, r)
    /\ UNCHANGED <<my_users, pg_roles>>

PgsqlEnsureUser(name) ==
    /\ LET r == pgsql_ensure_user(pg_roles, name)
       IN  /\ pg_roles' = r.roles
           /\ SqlCalled("pgsql", "ensure_user", name, r)
    /\ UNCHANGED <<my_users, my_dbs>>

PgsqlResetPassword(name) ==
    /\ SqlCalled("pgsql", "reset_password", name, pgsql_reset_password(pg_roles, name))
    /\ UNCHANGED <<my_users, my_dbs, pg_roles>>

SqlNext ==
    \/ \E n \in SqlNames : MysqlEnsureUser(n)
    \/ \E n \in SqlNames : MysqlCreateDatabase(n)
    \/ \E n \in SqlNames : PgsqlEnsureUser(n)
    \/ \E n \in SqlNames : PgsqlResetPassword(n)

SpecSql == SqlInit /\ [][SqlNext]_vars

(***************************************************************************)
(* tasks/mysql.py: the SQL user name of an owner.  Owner names are          *)
(* sequences of characters; owner_name gives the crsid of a member or the  *)
(* short name of a society.                                                *)
(***************************************************************************)
MaxName == 3

\* characters of the model: a letter, the hyphen, the underscore, and a dot
\* that no owner name has
NameChars == {"a", "-", "_", "."}

\* is_valid_socname: re.match(r'^[a-z0-9_-]+$', s)
is_valid_socname(s) == Len(s) >= 1 /\ \A k \in DOMAIN s : s[k] \in {"a", "-", "_"}

OwnerNames == {s \in StringsOver(NameChars, MaxName) : is_valid_socname(s)}

\* _user_name: owner_name(owner).replace("-", "_")
user_name(name) == replace(name, "-", <<"_">>)

\* _user_name_rev: name.replace("_", "-")
user_name_rev(name) == replace(name, "_", <<"-">>)

NameInit ==
    /\ RunnerInit
    /\ FsmIdle
    /\ ResultIdle
    /\ PasswordIdle
    /\ HostIdle
    /\ IdemIdle
    /\ SymlinkIdle
    /\ SqlIdle
    /\ TaskIdle
    /\ nm_owner \in OwnerNames
    /\ nm_other \in OwnerNames
    /\ nm_user = None
    /\ nm_other_user = None
    /\ nm_rev = None

\* the owners' names are mapped to their SQL user names
UserName ==
    /\ nm_user = None
    /\ nm_user' = user_name(nm_owner)
    /\ nm_other_user' = user_name(nm_other)
    /\ UNCHANGED <<nm_owner, nm_other, nm_rev>>
    /\ UNCHANGED <<rows, runner_vars, hist_vars, fsm_vars, result_vars>>
    /\ UNCHANGED <<pw_vars, host_vars, idem_vars, symlink_vars, sql_vars, task_vars>>

\* a user name found on the server is mapped back to its owner's name
UserNameRev ==
    /\ nm_user /= None
    /\ nm_rev = None
    /\ nm_rev' = user_name_rev(nm_user)
    /\ UNCHANGED <<nm_owner, nm_other, nm_user, nm_other_user>>
    /\ UNCHANGED <<rows, runner_vars, hist_vars, fsm_vars, result_vars>>
    /\ UNCHANGED <<pw_vars, host_vars, idem_vars, symlink_vars, sql_vars, task_vars>>

NameNext == UserName \/ UserNameRev

SpecName == NameInit /\ [][NameNext]_vars

(***************************************************************************)
(* tasks/mysql.py and tasks/pgsql.py: sync_society_roles, with the         *)
(* plumbing it calls.  MySQL keeps the database-level grants in mysql.db,  *)
(* one row per user and database name as written in the GRANT; PostgreSQL  *)
(* keeps role memberships in pg_auth_members, and its view pg_user lists   *)
(* the roles that can log in.                                              *)
(***************************************************************************)
MaxSyncs == 2

\* the escaped underscore of a LIKE pattern, one token
EscUnderscore == "<U+005C>_"

\* society short names, plain and with a hyphen
Societies == {<<"soc">>, <<"my", "-", "soc">>}

\* the members in the membership database: get_member finds these only
Crsids == {<<"ab1">>, <<"cd2">>}

\* SQL accounts: those of the members and one that belongs to no member
Accounts == Crsids \cup {<<"www">>}

\* some ordering of a set, as iteration over a Python set gives
SetToSeq(S) == CHOOSE q \in Orderings(S) : TRUE

\* a GRANT or REVOKE statement
RoleStatement(op, user, object) == [op |-> op, user |-> user, object |-> object]

\* tasks/mysql.py _database_name for an Owner
database_name(owner, suffix) ==
    IF suffix /= None THEN user_name(owner) \o <<"/", suffix>> ELSE user_name(owner)

\* mysql.get_users
mysql_get_users(users, names) == IF names = {} THEN {} ELSE users \cap names

\* mysql.get_database_users: Db = database.replace("_", "\\_")
get_database_users(grants, database) ==
    {g[1] : g \in {h \in grants : h[2] = replace(database, "_", <<EscUnderscore>>)}}

\* mysql.get_user_grants: the databases the user has ALL PRIVILEGES on
get_user_grants(grants, user) ==
    {replace(g[2], EscUnderscore, <<"_">>) : g \in {h \in grants : h[1] = user}}

\* mysql.grant_database that grants without looking at the grants
grant_database_always(grants, user, db) ==
    [grants |-> grants \cup {<<user, db>>}, result |-> Leaf("success"),
     sent |-> {RoleStatement("GRANT", user, db)}]

\* mysql.grant_database
grant_database(grants, user, db) ==
    IF db \in get_user_grants(grants, user)
    THEN [grants |-> grants, result |-> Leaf("unchanged"), sent |-> {}]
    ELSE [grants |-> grants \cup {<<user, db>>}, result |-> Leaf("success"),
          sent |-> {RoleStatement("GRANT", user, db)}]

\* mysql.revoke_database; ER.NONEXISTING_GRANT gives unchanged
revoke_database(grants, user, db) ==
    IF db \notin get_user_grants(grants, user)
    THEN [grants |-> grants, result |-> Leaf("unchanged"), sent |-> {}]
    ELSE [grants |-> grants \ {<<user, db>>},
          result |-> IF <<user, db>> \in grants THEN Leaf("success") ELSE Leaf("unchanged"),
          sent |-> {RoleStatement("REVOKE", user, db)}]

RECURSIVE mysql_sync_from(_, _, _)
\* the calls of tasks/mysql.py _sync_roles from the k-th on
mysql_sync_from(grants, ops, k) ==
    IF k > Len(ops)
    THEN [grants |-> grants, parts |-> <<>>, sent |-> {}]
    ELSE LET r == IF ops[k][1] = "GRANT"
                  THEN grant_database(grants, ops[k][2], ops[k][3])
                  ELSE revoke_database(grants, ops[k][2], ops[k][3])
             rest == mysql_sync_from(r.grants, ops, k + 1)
         IN  [grants |-> rest.grants, parts |-> <<r.result>> \o rest.parts,
              sent |-> r.sent \cup rest.sent]

\* tasks/mysql.py _sync_roles: grants for needed - current, then revokes
\* for current - needed
mysql_sync_roles(grants, current, needed) ==
    mysql_sync_from(grants,
                    [k \in DOMAIN SetToSeq(needed \ current) |->
                        <<"GRANT", SetToSeq(needed \ current)[k][1],
                          SetToSeq(needed \ current)[k][2]>>]
                    \o [k \in DOMAIN SetToSeq(current \ needed) |->
                        <<"REVOKE", SetToSeq(current \ needed)[k][1],
                          SetToSeq(current \ needed)[k][2]>>],
                    1)

\* tasks/mysql.py sync_society_roles, a Result.collect task
mysql_sync_society_roles(my, society, admin_crsids) ==
    LET databases == {database_name(society, None), database_name(society, "%")}
        current == {<<user, database>> \in my.users \X databases :
                        /\ user \in get_database_users(my.grants, database)
                        /\ user_name_rev(user) /= society
                        /\ user_name_rev(user) \in Crsids}
        needed == mysql_get_users(my.users, admin_crsids) \X databases
        r == mysql_sync_roles(my.grants, current, needed)
    IN  [my |-> [users |-> my.users, grants |-> r.grants],
         state |-> state([state |-> None, parts |-> r.parts]),
         sent |-> r.sent]

\* pgsql.get_roles
pgsql_get_roles(roles, names) == IF names = {} THEN {} ELSE DOMAIN roles \cap names

\* pgsql.get_role_users: the pg_user entries that are members of the role
get_role_users(pg, role) ==
    {m[1] : m \in {h \in pg.members :
                      h[2] = role /\ h[1] \in DOMAIN pg.roles /\ pg.roles[h[1]]}}

\* pgsql.get_user_roles: pg_has_role(name, oid, 'member')
get_user_roles(pg, name) ==
    {r \in DOMAIN pg.roles : r = name \/ <<name, r>> \in pg.members}

\* pgsql.grant_role
grant_role(pg, name, role) ==
    IF role \in get_user_roles(pg, name)
    THEN [pg |-> pg, result |-> Leaf("unchanged"), sent |-> {}]
    ELSE [pg |-> [pg EXCEPT !.members = @ \cup {<<name, role>>}],
          result |-> Leaf("success"), sent |-> {RoleStatement("GRANT", name, role)}]

\* pgsql.revoke_role
revoke_role(pg, name, role) ==
    IF role \notin get_user_roles(pg, name)
    THEN [pg |-> pg, result |-> Leaf("unchanged"), sent |-> {}]
    ELSE [pg |-> [pg EXCEPT !.members = @ \ {<<name, role>>}],
          result |-> Leaf("success"), sent |-> {RoleStatement("REVOKE", name, role)}]

RECURSIVE pgsql_sync_from(_, _, _)
\* the calls of tasks/pgsql.py _sync_roles from the k-th on
pgsql_sync_from(pg, ops, k) ==
    IF k > Len(ops)
    THEN [pg |-> pg, parts |-> <<>>, sent |-> {}]
    ELSE LET r == IF ops[k][1] = "GRANT"
                  THEN grant_role(pg, ops[k][2], ops[k][3])
                  ELSE revoke_role(pg, ops[k][2], ops[k][3])
             rest == pgsql_sync_from(r.pg, ops, k + 1)
         IN  [pg |-> rest.pg, parts |-> <<r.result>> \o rest.parts,
              sent |-> r.sent \cup rest.sent]

\* tasks/pgsql.py _sync_roles
pgsql_sync_roles(pg, current, needed) ==
    pgsql_sync_from(pg,
                    [k \in DOMAIN SetToSeq(needed \ current) |->
                        <<"GRANT", SetToSeq(needed \ current)[k][1],
                          SetToSeq(needed \ current)[k][2]>>]
                    \o [k \in DOMAIN SetToSeq(current \ needed) |->
                        <<"REVOKE", SetToSeq(current \ needed)[k][1],
                          SetToSeq(current \ needed)[k][2]>>],
                    1)

\* tasks/pgsql.py sync_society_roles, a Result.collect task; owner_name
\* gives the short name as it is
pgsql_sync_society_roles(pg, society, admin_crsids) ==
    IF society \notin DOMAIN pg.roles
    THEN [pg |-> pg, state |-> state([state |-> None, parts |-> <<>>]), sent |-> {}]
    ELSE LET current == {username \in get_role_users(pg, society) : username \in Crsids}
                            \X {society}
             needed == pgsql_get_roles(pg.roles, admin_crsids) \X {society}
             r == pgsql_sync_roles(pg, current, needed)
         IN  [pg |-> r.pg, state |-> state([state |-> None, parts |-> r.parts]),
              sent |-> r.sent]

\* the states of a MySQL server: some accounts, each with ALL PRIVILEGES on
\* some of the society's databases, granted as grant_database grants them
MysqlServers(society) ==
    UNION {[users : {U},
            grants : SUBSET (U \X {database_name(society, None),
                                   database_name(society, "%")})] :
           U \in SUBSET Accounts}

\* the states of a PostgreSQL server: some accounts with or without LOGIN,
\* the society's role or not, and accounts that are members of that role
PgsqlServers(society) ==
    UNION {[roles : [U -> BOOLEAN],
            members : SUBSET ((U \cap Accounts) \X (U \cap {society}))] :
           U \in SUBSET (Accounts \cup {society})}

SyncInit ==
    /\ BaseIdle
    /\ SyncRestIdle
    /\ sy_dialect \in {"mysql", "pgsql"}
    /\ sy_soc \in Societies
    /\ sy_admins \in SUBSET Crsids
    /\ sy_my \in IF sy_dialect = "mysql" THEN MysqlServers(sy_soc) ELSE {NoMysql}
    /\ sy_pg \in IF sy_dialect = "pgsql" THEN PgsqlServers(sy_soc) ELSE {NoPgsql}
    /\ sy_res = None
    /\ sy_sent = {}
    /\ sy_prev = None
    /\ sy_calls = 0

\* what every call of sync_society_roles records
Synced(r) ==
    /\ sy_calls < MaxSyncs
    /\ sy_calls' = sy_calls + 1
    /\ sy_res' = r.state
    /\ sy_sent' = r.sent
    /\ sy_prev' = [my |-> sy_my, pg |-> sy_pg]
    /\ UNCHANGED <<sy_dialect, sy_soc, sy_admins>>
    /\ UNCHANGED sync_frame

MysqlSync ==
    /\ sy_dialect = "mysql"
    /\ LET r == mysql_sync_society_roles(sy_my, sy_soc, sy_admins)
       IN  sy_my' = r.my /\ Synced(r)
    /\ UNCHANGED sy_pg

PgsqlSync ==
    /\ sy_dialect = "pgsql"
    /\ LET r == pgsql_sync_society_roles(sy_pg, sy_soc, sy_admins)
       IN  sy_pg' = r.pg /\ Synced(r)
    /\ UNCHANGED sy_my

SyncNext == MysqlSync \/ PgsqlSync

SpecSync == SyncInit /\ [][SyncNext]_vars

(***************************************************************************)
(* plumbing/bespoke.py scrub_member_jobs and the tasks delete_member and   *)
(* delete_society of tasks/membership.py, as far as they touch job rows.   *)
(* A job row is its type, its owner_crsid and its args.                    *)
(***************************************************************************)
MaxScrubJobs == 2

Redacted == "<redacted>"

\* jobs.SENSITIVE_ARGS for five job types, each value as `for field in`
\* goes through it: a tuple gives its fields, and the value of
\* CreateSociety is ("description"), a string, which gives its characters
SENSITIVE_ARGS ==
    [signup |-> <<"preferred_name", "surname", "email">>,
     update_name |-> <<"preferred_name", "surname">>,
     create_society |-> <<"d", "e", "s", "c", "r", "i", "p", "t", "i", "o", "n">>,
     update_society_description |-> <<"description">>]

\* dict.get
get(args, field) == IF field \in DOMAIN args THEN args[field] ELSE None

RECURSIVE scrub_fields(_, _, _)
\* the loop over the fields of one job, from the k-th field on
scrub_fields(args, fields, k) ==
    IF k > Len(fields)
    THEN [args |-> args, state |-> "unchanged"]
    ELSE LET v == get(args, fields[k])
             hit == v /= None /\ v /= "" /\ v /= Redacted
             rest == scrub_fields(IF hit THEN With(args, fields[k], Redacted) ELSE args,
                                  fields, k + 1)
         IN  [args |-> rest.args,
              state |-> IF hit THEN "success" ELSE rest.state]

\* the filter of scrub_member_jobs for a Member or a Society
scrub_filter(job, kind, name) ==
    IF kind = "member"
    THEN \/ job.owner_crsid = name
         \/ job.type = "signup" /\ get(job.args, "crsid") = name
    ELSE get(job.args, "society") = name

\* scrub_member_jobs
scrub_member_jobs(jobs, kind, name) ==
    LET done == [k \in DOMAIN jobs |->
                    IF /\ scrub_filter(jobs[k], kind, name)
                       /\ jobs[k].type \in DOMAIN SENSITIVE_ARGS
                    THEN scrub_fields(jobs[k].args, SENSITIVE_ARGS[jobs[k].type], 1)
                    ELSE [args |-> jobs[k].args, state |-> "unchanged"]]
    IN  [jobs |-> [k \in DOMAIN jobs |-> [jobs[k] EXCEPT !.args = done[k].args]],
         state |-> IF \E k \in DOMAIN jobs : done[k].state = "success"
                   THEN "success" ELSE "unchanged"]

ScrubMembers == {"ab1", "cd2"}
ScrubSocieties == {"soc", "oth"}

\* what a sensitive field holds: a personal value, or the mark of a scrub
FieldValues == {"personal", Redacted}

\* the rows the new() factories of the five job types make
JobRows ==
    {[type |-> "signup", owner_crsid |-> None,
      args |-> [crsid |-> c, preferred_name |-> p, surname |-> n, email |-> e,
                mail_handler |-> "pip", social |-> "n"]] :
        c \in ScrubMembers, p \in FieldValues, n \in FieldValues, e \in FieldValues}
    \cup {[type |-> "update_name", owner_crsid |-> c,
           args |-> [preferred_name |-> p, surname |-> n]] :
            c \in ScrubMembers, p \in FieldValues, n \in FieldValues}
    \cup {[type |-> "create_society", owner_crsid |-> c,
           args |-> [society |-> o, description |-> d, admins |-> c]] :
            c \in ScrubMembers, o \in ScrubSocieties, d \in FieldValues}
    \cup {[type |-> "update_society_description", owner_crsid |-> c,
           args |-> [society |-> o, description |-> d]] :
            c \in ScrubMembers, o \in ScrubSocieties, d \in FieldValues}
    \cup {[type |-> "test", owner_crsid |-> c, args |-> [sleep_time |-> "1"]] :
            c \in ScrubMembers}

ScrubInit ==
    /\ BaseIdle
    /\ ScrubRestIdle
    /\ sc_jobs \in UNION {[1..n -> JobRows] : n \in 1..MaxScrubJobs}
    /\ sc_call = <<>>
    /\ sc_res = None
    /\ sc_deleted = {}

\* delete_member: of its steps scrub_member_jobs alone touches job rows
DeleteMember(crsid) ==
    /\ <<"member", crsid>> \notin sc_deleted
    /\ LET r == scrub_member_jobs(sc_jobs, "member", crsid)
       IN  sc_jobs' = r.jobs /\ sc_res' = r.state
    /\ sc_call' = <<"delete_member", crsid>>
    /\ sc_deleted' = sc_deleted \cup {<<"member", crsid>>}
    /\ UNCHANGED scrub_frame

\* delete_society: none of its steps touches a job row
DeleteSociety(society) ==
    /\ <<"society", society>> \notin sc_deleted
    /\ sc_call' = <<"delete_society", society>>
    /\ sc_res' = None
    /\ sc_deleted' = sc_deleted \cup {<<"society", society>>}
    /\ UNCHANGED sc_jobs
    /\ UNCHANGED scrub_frame

ScrubNext ==
    \/ \E c \in ScrubMembers : DeleteMember(c)
    \/ \E o \in ScrubSocieties : DeleteSociety(o)

SpecScrub == ScrubInit /\ [][ScrubNext]_vars

(***************************************************************************)
(* jobs.py: the new() factories of the 29 job types and the approval each  *)
(* asks of Job.create.                                                     *)
(***************************************************************************)
MaxAdmins == 2

\* require_approval = member.danger
MemberJobTypes ==
    {"reset_user_password", "update_name", "update_email_address", "update_mail_handler",
     "create_user_mailing_list", "reset_user_mailing_list_password",
     "change_user_vhost_docroot", "remove_user_vhost", "create_mysql_user_database",
     "reset_mysql_user_password", "create_postgres_user_database",
     "reset_postgres_user_password"}

\* require_approval = member.danger or society.danger, in either order
SocietyJobTypes ==
    {"update_society_description", "create_society_mailing_list",
     "reset_society_mailing_list_password", "create_mysql_society_database",
     "reset_mysql_society_password", "create_postgres_society_database",
     "reset_postgres_society_password", "change_society_vhost_docroot",
     "remove_society_vhost"}

\* require_approval is the constant True
ApprovedAlwaysTypes == {"reactivate", "add_user_vhost", "create_society", "add_society_vhost"}

\* require_approval is the constant False
ApprovedNeverTypes == {"test", "signup"}

JobTypes ==
    MemberJobTypes \cup SocietyJobTypes \cup ApprovedAlwaysTypes \cup ApprovedNeverTypes
        \cup {"update_society_role_email", "change_society_admin"}

\* bool() of an optional string
nonempty(text) == text /= None /\ text /= ""

\* ChangeSocietyAdmin.new without the test of role_email
require_approval_any_last_admin(type, in) ==
    CASE type \in MemberJobTypes -> in.member_danger
      [] type \in SocietyJobTypes -> in.member_danger \/ in.society_danger
      [] type \in ApprovedAlwaysTypes -> TRUE
      [] type \in ApprovedNeverTypes -> FALSE
      [] type = "update_society_role_email" ->
            in.member_danger \/ in.society_danger \/ nonempty(in.email)
      [] type = "change_society_admin" ->
            \/ in.society_danger
            \/ in.target_danger
            \/ in.member_danger
            \/ in.action = "remove" /\ in.admins = 1

\* the truth value of the require_approval each new() hands to Job.create
require_approval(type, in) ==
    CASE type \in MemberJobTypes -> in.member_danger
      [] type \in SocietyJobTypes -> in.member_danger \/ in.society_danger
      [] type \in ApprovedAlwaysTypes -> TRUE
      [] type \in ApprovedNeverTypes -> FALSE
      [] type = "update_society_role_email" ->
            in.member_danger \/ in.society_danger \/ nonempty(in.email)
      [] type = "change_society_admin" ->
            \/ in.society_danger
            \/ in.target_danger
            \/ in.member_danger
            \/ in.action = "remove" /\ in.admins = 1 /\ nonempty(in.role_email)

\* what a factory is given: the danger flags of the requesting member, the
\* target member and the society, the society's role_email and number of
\* admins, the action of a ChangeSocietyAdmin and the email of an
\* UpdateSocietyRoleEmail
FactoryInputs ==
    [member_danger : BOOLEAN, target_danger : BOOLEAN, society_danger : BOOLEAN,
     role_email : {None, "", "soc@srcf.net"}, admins : 1..MaxAdmins,
     action : {"add", "remove"}, email : {"", "new@srcf.net"}]

CreateInit ==
    /\ BaseIdle
    /\ CreateRestIdle
    /\ cr_type \in JobTypes
    /\ cr_in \in FactoryInputs
    /\ cr_state = None

\* cls.new(...): the row made by Job.create
New ==
    /\ cr_state = None
    /\ cr_state' = create(require_approval(cr_type, cr_in))
    /\ UNCHANGED <<cr_type, cr_in>>
    /\ UNCHANGED create_frame

CreateNext == New

SpecCreate == CreateInit /\ [][CreateNext]_vars

(***************************************************************************)
(* email/__init__.py: EmailWrapper as a context manager, SuppressEmails    *)
(* and send.                                                               *)
(***************************************************************************)
MaxMails == 5
MaxBlocks == 2

\* wrappers a caller makes: a SuppressEmails and an EmailWrapper of its own
Wrappers == {"SuppressEmails", "EmailWrapper"}

DEFAULT_WRAPPER == "DEFAULT_WRAPPER"

\* EmailWrapper.__enter__ without the test of CURRENT_WRAPPER
enter_unchecked(current, wrapper) == [raised |-> FALSE, current |-> wrapper]

\* EmailWrapper.__enter__
enter(current, wrapper) ==
    IF current /= None
    THEN [raised |-> TRUE, current |-> current]
    ELSE [raised |-> FALSE, current |-> wrapper]

\* EmailWrapper.__exit__
exit(current) == None

\* send: the wrapper used, whether send_mail is called, the Result's state
send(current) ==
    LET wrapper == IF current /= None THEN current ELSE DEFAULT_WRAPPER
    IN  IF wrapper = "SuppressEmails"
        THEN [wrapper |-> wrapper, mail |-> FALSE, state |-> "unchanged"]
        ELSE [wrapper |-> wrapper, mail |-> TRUE, state |-> "success"]

EmailInit ==
    /\ BaseIdle
    /\ EmailRestIdle
    /\ EmailIdle

\* `with wrapper:` is reached; when __enter__ raises, the block is not
\* entered and __exit__ of this wrapper is not called
EnterBlock(wrapper) ==
    /\ ~em_raised
    /\ Len(em_blocks) < MaxBlocks
    /\ LET r == enter(em_current, wrapper)
       IN  /\ em_current' = r.current
           /\ em_raised' = r.raised
           /\ em_blocks' = IF r.raised THEN em_blocks ELSE Append(em_blocks, wrapper)
    /\ em_call' = <<"enter", em_current, em_sent>>
    /\ UNCHANGED <<em_sent, em_res>>
    /\ UNCHANGED email_frame

\* the innermost with block ends, normally or by the exception on its way
\* out: __exit__ runs and does not swallow the exception
ExitBlock ==
    /\ em_blocks /= <<>>
    /\ em_current' = exit(em_current)
    /\ em_blocks' = Front(em_blocks)
    /\ em_call' = <<"exit", em_current, em_sent>>
    /\ UNCHANGED <<em_raised, em_sent, em_res>>
    /\ UNCHANGED email_frame

\* the exception is caught, inside a with block or outside all of them
Catch ==
    /\ em_raised
    /\ em_raised' = FALSE
    /\ em_call' = <<"except", em_current, em_sent>>
    /\ UNCHANGED <<em_current, em_blocks, em_sent, em_res>>
    /\ UNCHANGED email_frame

\* a task calls srcflib.email.send
SendMail ==
    /\ ~em_raised
    /\ em_sent < MaxMails
    /\ LET r == send(em_current)
       IN  /\ em_sent' = IF r.mail THEN em_sent + 1 ELSE em_sent
           /\ em_res' = r.state
    /\ em_call' = <<"send", em_current, em_sent>>
    /\ UNCHANGED <<em_current, em_blocks, em_raised>>
    /\ UNCHANGED email_frame

EmailNext ==
    \/ \E w \in Wrappers : EnterBlock(w)
    \/ ExitBlock
    \/ Catch
    \/ SendMail

SpecEmail == EmailInit /\ [][EmailNext]_vars

(***************************************************************************)
(* database/schema.py Member, plumbing/bespoke.py ensure_member and the    *)
(* tasks of tasks/membership.py that write the member record.  A row is    *)
(* its flags member and user and whether surname, preferred_name, email    *)
(* and joined are all set (details).  The tasks hand ensure_member an      *)
(* is_contactable argument after is_user, which is no part of the row as   *)
(* schema.py declares it and is left out here.                             *)
(***************************************************************************)
MaxTasks == 4

\* CheckConstraint members_must_have_details
members_must_have_details(row) == ~row.member \/ row.details

\* the members table without the constraint users_must_be_members
users_must_be_members_dropped(row) == TRUE

\* CheckConstraint users_must_be_members: member OR NOT "user"
users_must_be_members(row) == row.member \/ ~row.user

\* the table takes the INSERT or UPDATE of the row
accepted(row) == members_must_have_details(row) /\ users_must_be_members(row)

\* ensure_member followed by the flush that sends the row to the table:
\* _create_member for a crsid not in the table, _update_member for one in
\* it; a row the table refuses raises IntegrityError and is not stored
ensure_member(found, details, is_member, is_user) ==
    LET new == [member |-> is_member, user |-> is_user,
                details |-> IF found = <<>> THEN details
                            ELSE details /\ found[1].joined_set,
                joined_set |-> IF found = <<>> THEN TRUE ELSE found[1].joined_set]
    IN  IF accepted(new)
        THEN [raised |-> FALSE, found |-> <<new>>]
        ELSE [raised |-> TRUE, found |-> found]

\* create_member; preferred_name, surname and email are given
create_member(found, is_member, is_user) == ensure_member(found, TRUE, is_member, is_user)

\* cancel_member; is_member None keeps member.member
cancel_member(found, is_member) ==
    ensure_member(found, found[1].details,
                  IF is_member = None THEN found[1].member ELSE is_member = "True",
                  FALSE)

\* reactivate_member; the names are the ones on the record
reactivate_member(found) == ensure_member(found, found[1].details, TRUE, TRUE)

\* delete_member: cancel_member, then ensure_member with the names and the
\* email None and both flags False
delete_member(found) ==
    LET c == cancel_member(found, None)
    IN  IF c.raised THEN c ELSE ensure_member(c.found, FALSE, FALSE, FALSE)

\* the rows the table can hold
MemberRows ==
    {r \in [member : BOOLEAN, user : BOOLEAN, details : BOOLEAN, joined_set : BOOLEAN] :
        (r.user => r.member) /\ (r.member => r.details) /\ (r.details => r.joined_set)}

\* Python's repr of a bool
repr(b) == IF b THEN "True" ELSE "False"

MemberInit ==
    /\ BaseIdle
    /\ MemberRestIdle
    /\ mb_row \in {<<>>} \cup {<<r>> : r \in MemberRows}
    /\ mb_call = <<>>
    /\ mb_raised = FALSE
    /\ mb_tasks = 0

\* what every task records
Tasked(call, r) ==
    /\ mb_tasks < MaxTasks
    /\ mb_tasks' = mb_tasks + 1
    /\ mb_row' = r.found
    /\ mb_raised' = r.raised
    /\ mb_call' = call
    /\ UNCHANGED member_frame

CreateMember(is_member, is_user) ==
    Tasked(<<"create_member", repr(is_member), repr(is_user)>>,
           create_member(mb_row, is_member, is_user))

CancelMember(is_member) ==
    /\ mb_row /= <<>>
    /\ Tasked(<<"cancel_member", is_member>>, cancel_member(mb_row, is_member))

ReactivateMember ==
    /\ mb_row /= <<>>
    /\ Tasked(<<"reactivate_member">>, reactivate_member(mb_row))

DeleteMemberRecord ==
    /\ mb_row /= <<>>
    /\ Tasked(<<"delete_member">>, delete_member(mb_row))

MemberNext ==
    \/ \E m, u \in BOOLEAN : CreateMember(m, u)
    \/ \E m \in {None, "False", "True"} : CancelMember(m)
    \/ ReactivateMember
    \/ DeleteMemberRecord

SpecMember == MemberInit /\ [][MemberNext]_vars

(***************************************************************************)
(* job_runner.py: the notification stream of a running runner.  The runner *)
(* has connected and yielded its backlog; inserts committed while it was   *)
(* dispatching have left their notifications on its connection.            *)
(***************************************************************************)
MaxPending == 2

\* the runner process of the stream
StreamRunner == 1

\* rows inserted so far: awaiting approval, queued, or dispatched and done
StreamRows ==
    UNION {[1..n -> {[state |-> "unapproved", state_message |-> None],
                     [state |-> "queued", state_message |-> None],
                     [state |-> "done", state_message |-> "Completed"]}] : n \in 0..MaxJobs}

\* conn.notifies: the payloads in the order they arrived
Pending(rs) == UNION {[1..n -> DOMAIN rs] : n \in 0..MaxPending}

StreamInit ==
    /\ FsmIdle
    /\ ResultIdle
    /\ LibIdle
    /\ rows \in StreamRows
    /\ lock_holder = StreamRunner
    /\ listening = {StreamRunner}
    /\ pc = [r \in Runners |-> IF r = StreamRunner THEN "next" ELSE "off"]
    /\ existing_ids = [r \in Runners |-> <<>>]
    /\ \E n \in Pending(rows) :
          /\ queued_ids(rows) \subseteq Range(n)
          /\ notifies = [r \in Runners |-> IF r = StreamRunner THEN n ELSE <<>>]
    /\ cur = [r \in Runners |-> NoJob]
    /\ run = [r \in Runners |-> NoRunResult]
    /\ fresh = [j \in JobIds |-> j \in queued_ids(rows)]
    /\ emails = [j \in JobIds |-> FALSE]
    /\ log = [r \in Runners |-> 0]

StreamNext ==
    \/ Yield(StreamRunner)
    \/ \E refs_ok \in RefsOutcomes : Find(StreamRunner, refs_ok)
    \/ Claim(StreamRunner)
    \/ \E o \in Outcomes, refs_ok \in RefsOutcomes, mail_ok \in BOOLEAN :
          Handle(StreamRunner, o, refs_ok, mail_ok)
    \/ Commit(StreamRunner)
    \/ \E a \in BOOLEAN : Insert(a)
    \/ \E i \in JobIds, a \in ActionNames : Transition(i, a)
    \/ \E i \in JobIds : Renotify(i)

SpecStream == StreamInit /\ [][StreamNext]_vars

\* the runner process runs until it exits; select() returns when a
\* notification is queued on the connection, and after 600 seconds
FairSpecStream == SpecStream /\ WF_vars(RunnerStep(StreamRunner))

(***************************************************************************)
(* job_runner.py main: the runner's session over one dispatch.  A store is *)
(* the rows of the members, societies, domains and jobs tables (data: for  *)
(* each table, the run that wrote its rows last) together with the state   *)
(* and state_message of the row of the job being dispatched (job).         *)
(***************************************************************************)
MaxRuns == 2

Tables == {"members", "societies", "domains", "jobs"}

\* a session whose rollback keeps the uncommitted changes
rollback_skipped(sess, db) == sess

\* sess.rollback(): the uncommitted changes are discarded; what the session
\* then reads is what is committed
rollback(sess, db) == db

\* sess.commit(): the session's changes become the committed rows
commit(sess) == sess

\* a runner that rolls back in both except clauses
rolls_back_always(outcome) == TRUE

\* main: sess.rollback() stands in the clause of Exception only
rolls_back(outcome) == outcome = "exception"

SessionInit ==
    /\ BaseIdle
    /\ SessionRestIdle
    /\ se_db = [data |-> [t \in Tables |-> 0],
                job |-> [state |-> "queued", state_message |-> None]]
    /\ se_sess = se_db
    /\ se_pc = "next"
    /\ se_run = NoRunResult
    /\ se_before = se_db
    /\ se_at_end = se_db
    /\ se_runs = 0

\* main: the id is yielded, Job.find, the state check, set_state("running"),
\* sess.add(job.row), sess.commit(); job.run starts
Dispatch ==
    /\ se_pc = "next"
    /\ se_runs < MaxRuns
    /\ ~skip(se_db.job)
    /\ LET claimed == commit([se_db EXCEPT !.job = set_state(@, "running", "Running")])
       IN  /\ se_db' = claimed
           /\ se_sess' = claimed
           /\ se_before' = claimed
           /\ se_at_end' = claimed
    /\ se_runs' = se_runs + 1
    /\ se_run' = NoRunResult
    /\ se_pc' = "run"
    /\ UNCHANGED session_frame

\* job.run: the handler changes rows of a table through the session (an
\* attribute write, sess.add, sess.delete, with or without sess.flush)
Write(t) ==
    /\ se_pc = "run"
    /\ se_sess.data[t] /= se_runs
    /\ se_sess' = [se_sess EXCEPT !.data[t] = se_runs]
    /\ UNCHANGED <<se_db, se_pc, se_run, se_before, se_at_end, se_runs>>
    /\ UNCHANGED session_frame

\* main: job.run ends and the try statement with it: the log entry, and in
\* the clause of Exception sess.rollback() and Job.find, then email_error in
\* both except clauses.  An exception of Job.find (refs_ok false) or of
\* email_error (mail_ok false) ends main, and the session with it
HandlerEnd(outcome, refs_ok, mail_ok) ==
    /\ se_pc = "run"
    /\ LET res == run_result(outcome)
           raises == \/ outcome = "exception" /\ ~refs_ok
                     \/ res.email /\ ~mail_ok
           sess == IF rolls_back(outcome) THEN rollback(se_sess, se_db) ELSE se_sess
       IN  /\ refs_ok \/ outcome = "exception"
           /\ mail_ok \/ (res.email /\ refs_ok)
           /\ se_at_end' = se_sess
           /\ se_run' = [outcome |-> outcome, state |-> res.state, message |-> res.message]
           /\ IF raises
              THEN /\ se_pc' = "crashed"
                   /\ se_sess' = se_db
              ELSE /\ se_pc' = "record"
                   /\ se_sess' = sess
    /\ UNCHANGED <<se_db, se_before, se_runs>>
    /\ UNCHANGED session_frame

\* main: job.set_state(run_state, run_message); sess.add(job.row); sess.commit()
Record ==
    /\ se_pc = "record"
    /\ LET recorded == commit([se_sess EXCEPT !.job = set_state(@, se_run.state, se_run.message)])
       IN  /\ se_db' = recorded
           /\ se_sess' = recorded
    /\ se_pc' = "next"
    /\ UNCHANGED <<se_run, se_before, se_at_end, se_runs>>
    /\ UNCHANGED session_frame

\* an operator calls Job.transition on the row between two dispatches and
\* commits
Requeue(action) ==
    /\ se_pc = "next"
    /\ LET t == transition(se_db.job, action, None)
       IN  /\ ~t.raised
           /\ se_db' = [se_db EXCEPT !.job = t.job]
           /\ se_sess' = [se_sess EXCEPT !.job = t.job]
    /\ se_run' = NoRunResult
    /\ UNCHANGED <<se_pc, se_before, se_at_end, se_runs>>
    /\ UNCHANGED session_frame

SessionNext ==
    \/ Dispatch
    \/ \E t \in Tables : Write(t)
    \/ \E o \in Outcomes, refs_ok \in RefsOutcomes, mail_ok \in BOOLEAN :
          HandlerEnd(o, refs_ok, mail_ok)
    \/ Record
    \/ \E a \in ActionNames : Requeue(a)

SpecSession == SessionInit /\ [][SessionNext]_vars

(***************************************************************************)
(* jobs.py ChangeSocietyAdmin: resolve_references, run, add_admin and      *)
(* rm_admin, with tasks/membership.py add_society_admin and                *)
(* remove_society_admin.  A society is whether its record exists, its      *)
(* admins and the members of its UNIX group.                               *)
(***************************************************************************)
MaxAdminJobs == 2

People == {"ab1", "cd2", "ef3"}

\* the exception run ended with, None for a return
NoException == [raised |-> None, message |-> None]

JobFailed(message) == [raised |-> "JobFailed", message |-> message]

\* membership.add_society_admin: bespoke.add_society_admin (_add_to_society,
\* unix.add_to_group, link_soc_home_dir), the role sync on both servers, and
\* the log entry and the two mails when the plumbing changed something
add_society_admin(soc, member) ==
    LET res_add == member \notin soc.admins \/ member \notin soc.group
    IN  [soc |-> [soc EXCEPT !.admins = @ \cup {member}, !.group = @ \cup {member}],
         calls |-> <<"bespoke.add_society_admin", "mysql.sync_society_roles",
                     "pgsql.sync_society_roles">>
                   \o IF res_add THEN <<"log_to_file", "send", "send">> ELSE <<>>]

\* a removal that leaves the admin in place
remove_society_admin_kept(soc, member) ==
    [soc |-> soc, calls |-> <<"bespoke.remove_society_admin", "mysql.sync_society_roles",
                              "pgsql.sync_society_roles">>]

\* membership.remove_society_admin with RemoveProcess.DEFAULT
remove_society_admin(soc, member) ==
    LET res_remove == member \in soc.admins \/ member \in soc.group
        left == soc.admins \ {member}
    IN  [soc |-> [soc EXCEPT !.admins = left, !.group = @ \ {member}],
         calls |-> <<"bespoke.remove_society_admin", "mysql.sync_society_roles",
                     "pgsql.sync_society_roles">>
                   \o (IF res_remove THEN <<"log_to_file">> ELSE <<>>)
                   \o (IF res_remove /\ left /= {} THEN <<"send">> ELSE <<>>)
                   \o (IF res_remove THEN <<"send">> ELSE <<>>)]

\* what run leaves behind when it raises before a call
Refused(soc, exc) == [soc |-> soc, calls |-> <<>>, exc |-> exc]

\* what it leaves behind when the task has run
Done(t) == [soc |-> t.soc, calls |-> t.calls, exc |-> NoException]

\* ChangeSocietyAdmin.add_admin
add_admin(job, soc, flags) ==
    IF ~flags[job.target_member].member
    THEN Refused(soc, JobFailed("is not a SRCF member"))
    ELSE IF ~flags[job.target_member].user
    THEN Refused(soc, JobFailed("is not a SRCF user"))
    ELSE Done(add_society_admin(soc, job.target_member))

\* rm_admin without the check of the number of admins
rm_admin_unchecked(job, soc) == Done(remove_society_admin(soc, job.target_member))

\* ChangeSocietyAdmin.rm_admin
rm_admin(job, soc) ==
    IF Cardinality(soc.admins) = 1
    THEN Refused(soc, JobFailed("Removing all admins not implemented"))
    ELSE Done(remove_society_admin(soc, job.target_member))

\* ChangeSocietyAdmin.run; self.society is None when the society's record is
\* gone, and self.society.admins then raises AttributeError
ChangeSocietyAdmin_run(job, soc, flags) ==
    IF ~soc.exists
    THEN Refused(soc, [raised |-> "AttributeError", message |-> "exception summary"])
    ELSE IF job.owner \notin soc.admins
    THEN Refused(soc, JobFailed("is not permitted to change the admins of"))
    ELSE IF job.action = "add"
    THEN add_admin(job, soc, flags)
    ELSE rm_admin(job, soc)

\* main: run_state and run_message for the way run ended
recorded(exc) ==
    IF exc.raised = None
    THEN [state |-> "done", state_message |-> "Completed"]
    ELSE [state |-> "failed", state_message |-> exc.message]

\* the society records: one that is gone has no admins; the UNIX group holds
\* the admins
SocietyRecords ==
    {[exists |-> e, admins |-> a, group |-> a] :
        e \in BOOLEAN, a \in SUBSET People} \ {[exists |-> FALSE, admins |-> a, group |-> a] :
                                                  a \in (SUBSET People) \ {{}}}

\* the member records: users_must_be_members holds of each
MemberFlags ==
    [People -> {[member |-> TRUE, user |-> TRUE], [member |-> TRUE, user |-> FALSE],
                [member |-> FALSE, user |-> FALSE]}]

AdminInit ==
    /\ BaseIdle
    /\ AdminRestIdle
    /\ ad_soc \in SocietyRecords
    /\ ad_flags \in MemberFlags
    /\ ad_job = <<>>
    /\ ad_pc = "next"
    /\ ad_out = <<>>
    /\ ad_calls = <<>>
    /\ ad_prev = <<>>
    /\ ad_row = <<>>
    /\ ad_jobs = 0

\* main: Job.find on the id of a queued change_society_admin row;
\* resolve_references looks the target up with get_member, which raises
\* KeyError for a record that is not a member, and main ends
FindAdminJob(owner, target_member, action) ==
    /\ ad_pc = "next"
    /\ ad_jobs < MaxAdminJobs
    /\ ad_jobs' = ad_jobs + 1
    /\ ad_job' = [owner |-> owner, target_member |-> target_member, action |-> action]
    /\ ad_row' = [state |-> "queued", state_message |-> None]
    /\ ad_pc' = IF ad_flags[target_member].member THEN "found" ELSE "crashed"
    /\ ad_out' = <<>>
    /\ ad_calls' = <<>>
    /\ ad_prev' = ad_soc
    /\ UNCHANGED <<ad_soc, ad_flags>>
    /\ UNCHANGED admin_frame

\* main: set_state("running"), job.run, and the outcome recorded on the row
RunAdminJob ==
    /\ ad_pc = "found"
    /\ LET r == ChangeSocietyAdmin_run(ad_job, ad_soc, ad_flags)
       IN  /\ ad_soc' = r.soc
           /\ ad_calls' = r.calls
           /\ ad_out' = r.exc
           /\ ad_row' = recorded(r.exc)
    /\ ad_pc' = "ran"
    /\ UNCHANGED <<ad_flags, ad_job, ad_prev, ad_jobs>>
    /\ UNCHANGED admin_frame

\* main goes on to the next id
NextAdminJob ==
    /\ ad_pc = "ran"
    /\ ad_pc' = "next"
    /\ UNCHANGED <<ad_soc, ad_flags, ad_job, ad_out, ad_calls, ad_prev, ad_row, ad_jobs>>
    /\ UNCHANGED admin_frame

AdminNext ==
    \/ \E o, t \in People, a \in {"add", "remove"} : FindAdminJob(o, t, a)
    \/ RunAdminJob
    \/ NextAdminJob

SpecAdmin == AdminInit /\ [][AdminNext]_vars

(***************************************************************************)
(* jobs.py CreateUserMailingList.run, tasks/mailman.py create_list and     *)
(* plumbing/mailman.py ensure_list and _create_list.  A name is a sequence *)
(* of pieces: a lowercase letter, an uppercase letter, a digit, a hyphen,  *)
(* an underscore, or one of the words the checks look for, written out.    *)
(***************************************************************************)
MaxPieces == 3

Words == {"admin", "admins", "post", "owner"}

Pieces == {"x", "X", "7", "-", "_"} \cup Words

\* the strings of up to MaxPieces pieces, the empty one left out
ListNames == UNION {[1..n -> Pieces] : n \in 1..MaxPieces}

\* re.match(r"^[A-Za-z0-9\-]+$", name)
matches(name) == name /= <<>> /\ \A k \in DOMAIN name : name[k] /= "_"

\* name.split("-")[-1], and name.rsplit("-", 1)[-1]: what follows the last hyphen
last_segment(name) ==
    LET hyphens == {k \in DOMAIN name : name[k] = "-"}
        from == IF hyphens = {} THEN 1
                ELSE (CHOOSE k \in hyphens : \A h \in hyphens : h <= k) + 1
    IN  SubSeq(name, from, Len(name))

\* the words the job refuses as last segment
job_reserved ==
    {<<"admins">>, <<"admin">>, <<"bounces">>, <<"confirm">>, <<"join">>, <<"leave">>,
     <<"owner">>, <<"request">>, <<"subscribe">>, <<"unsubscribe">>}

\* the suffixes create_list refuses, without their hyphen
task_reserved ==
    {<<"post">>, <<"admin">>, <<"bounces">>, <<"confirm">>, <<"join">>, <<"leave">>,
     <<"owner">>, <<"request">>, <<"subscribe">>, <<"unsubscribe">>}

\* the words _create_list refuses as last segment
plumbing_reserved ==
    {<<"admin">>, <<"bounces">>, <<"confirm">>, <<"join">>, <<"leave">>, <<"owner">>,
     <<"request">>, <<"subscribe">>, <<"unsubscribe">>}

\* _list_name_owner: "{}-{}".format(username, suffix), the user being ab1
list_name(suffix) == <<"x", "x", "7", "-">> \o suffix

\* CreateUserMailingList.run: the sanity check of the listname
job_accepts(listname) == matches(listname) /\ last_segment(listname) \notin job_reserved

\* tasks.mailman.create_list: name.endswith(("-post", "-admin", ...))
task_accepts(name) ==
    ~(\E k \in DOMAIN name : name[k] = "-" /\ SubSeq(name, k + 1, Len(name)) \in task_reserved)

\* plumbing.mailman._create_list: the two checks after get_list
plumbing_accepts(name) == matches(name) /\ last_segment(name) \notin plumbing_reserved

\* ensure_list: _create_list for a name Mailman does not hold, set_owner for
\* one it holds
ensure_list(lists, name) ==
    IF name \in lists
    THEN [lists |-> lists, exc |-> NoException]
    ELSE IF plumbing_accepts(name)
    THEN [lists |-> lists \cup {name}, exc |-> NoException]
    ELSE [lists |-> lists, exc |-> [raised |-> "ValueError", message |-> "exception summary"]]

\* tasks.mailman.create_list
create_list(lists, suffix) ==
    IF task_accepts(list_name(suffix))
    THEN ensure_list(lists, list_name(suffix))
    ELSE [lists |-> lists, exc |-> [raised |-> "ValueError", message |-> "exception summary"]]

\* CreateUserMailingList.run
CreateUserMailingList_run(lists, listname) ==
    IF job_accepts(listname)
    THEN create_list(lists, listname)
    ELSE [lists |-> lists, exc |-> JobFailed("Invalid list suffix")]

ListInit ==
    /\ BaseIdle
    /\ ListRestIdle
    /\ ml_listname \in ListNames
    /\ ml_lists = {}
    /\ ml_pc = "found"
    /\ ml_out = <<>>

\* main: job.run on a create_user_mailing_list job
RunListJob ==
    /\ ml_pc = "found"
    /\ LET r == CreateUserMailingList_run(ml_lists, ml_listname)
       IN  /\ ml_lists' = r.lists
           /\ ml_out' = r.exc
    /\ ml_pc' = "ran"
    /\ UNCHANGED ml_listname
    /\ UNCHANGED list_frame

ListNext == RunListJob

SpecList == ListInit /\ [][ListNext]_vars

(***************************************************************************)
(* tasks/membership.py: create_member, driven by Result.collect            *)
(***************************************************************************)
MailHandlers == {"forward", "pip", "hades"}

\* the position of the first occurrence of a step in a trace, 0 for none
first(trace, step) ==
    IF \E k \in DOMAIN trace : trace[k] = step
    THEN CHOOSE k \in DOMAIN trace : trace[k] = step /\ \A j \in 1..(k - 1) : trace[j] /= step
    ELSE 0

\* unix.ensure_user: a collected Result; its part is _create_user's Result
\* for a name get_user does not know, and the Results of the four setters
\* for a known one
ensure_user(account) ==
    CASE account = "absent" -> [state |-> None, parts |-> <<Leaf("created")>>]
      [] account = "same" -> [state |-> None, parts |-> <<Leaf("unchanged"), Leaf("unchanged")>>]
      [] account = "differs" -> [state |-> None, parts |-> <<Leaf("unchanged"), Leaf("success")>>]

\* bespoke.update_nis(wait): time.sleep(16) runs when make changed something
\* and wait is set
update_nis(wait, world) ==
    \* make("/var/yp") rebuilds the maps when the passwd files are newer
    LET res == Leaf(IF world.stale THEN "success" ELSE "unchanged")
    IN  [world EXCEPT !.stale = FALSE,
                      !.nis = TRUE,
                      !.waited = Result_bool(res) /\ wait]

\* bespoke.create_forwarding_file: nothing for a file that exists
create_forwarding_file(world) ==
    IF world.forward THEN world ELSE [world EXCEPT !.forward = TRUE, !.forward_made = TRUE]

\* create_member up to update_nis: the step the generator is suspended at
\* runs, the locals take its result, and the generator runs on to its next
\* yield
create_member_accounts(at, inp, loc, world) ==
    CASE at = "ensure_member" ->
            [loc |-> [loc EXCEPT !.res_record = Leaf(inp.record)], world |-> world,
             next |-> "ensure_group"]
      [] at = "ensure_group" ->
            [loc |-> loc, world |-> world, next |-> "ensure_user"]
      [] at = "ensure_user" ->
            LET res_user == ensure_user(inp.existing)
                new_user == state(res_user) = "created"
            IN  [loc |-> [loc EXCEPT !.new_user = new_user],
                 world |-> [world EXCEPT !.user = TRUE,
                                         !.stale = @ \/ inp.existing /= "same"],
                 next |-> IF new_user \/ inp.new_passwd THEN "reset_password"
                          ELSE "update_nis"]
      [] at = "reset_password" ->
            [loc |-> [loc EXCEPT !.passwd = "password"],
             world |-> [world EXCEPT !.stale = TRUE], next |-> "update_nis"]
      [] at = "update_nis" ->
            [loc |-> loc, world |-> update_nis(loc.new_user, world), next |-> "create_home"]

\* create_member from create_home to the mailbox
create_member_files(at, inp, loc, world) ==
    CASE at = "create_home" ->
            [loc |-> loc, world |-> [world EXCEPT !.homes = @ + 1],
             next |-> "create_home_public"]
      [] at = "create_home_public" ->
            [loc |-> loc, world |-> [world EXCEPT !.homes = @ + 1],
             next |-> "populate_home_dir"]
      [] at = "populate_home_dir" ->
            [loc |-> loc, world |-> world, next |-> "set_home_exim_acl"]
      [] at = "set_home_exim_acl" ->
            [loc |-> loc, world |-> world, next |-> "create_public_html"]
      [] at = "create_public_html" ->
            [loc |-> loc, world |-> world,
             next |-> IF Result_bool(loc.res_record) THEN "update_quotas"
                      ELSE IF inp.mail_handler = "pip" THEN "create_forwarding_file"
                      ELSE "create_legacy_mailbox"]
      [] at = "update_quotas" ->
            [loc |-> loc, world |-> world,
             next |-> IF inp.mail_handler = "pip" THEN "create_forwarding_file"
                      ELSE "create_legacy_mailbox"]
      [] at = "create_forwarding_file" ->
            [loc |-> loc, world |-> create_forwarding_file(world),
             next |-> "create_legacy_mailbox"]

\* create_member from the mailbox to its return
create_member_notices(at, inp, loc, world) ==
    LET export == IF Result_bool(loc.res_record) THEN "export_members"
                  ELSE IF loc.passwd /= None THEN "send" ELSE "returned"
    IN  CASE at = "create_legacy_mailbox" ->
                [loc |-> loc, world |-> world,
                 next |-> IF loc.new_user THEN "queue_list_subscription" ELSE export]
          [] at = "queue_list_subscription" ->
                [loc |-> loc, world |-> world,
                 next |-> IF inp.social THEN "queue_list_subscription_social" ELSE export]
          [] at = "queue_list_subscription_social" ->
                [loc |-> loc, world |-> world, next |-> export]
          [] at = "export_members" ->
                [loc |-> loc, world |-> world,
                 next |-> IF loc.passwd /= None THEN "send" ELSE "returned"]
          [] at = "send" ->
                [loc |-> loc, world |-> world, next |-> "returned"]

\* create_member
create_member_step(at, inp, loc, world) ==
    IF at \in {"ensure_member", "ensure_group", "ensure_user", "reset_password", "update_nis"}
    THEN create_member_accounts(at, inp, loc, world)
    ELSE IF at \in {"create_legacy_mailbox", "queue_list_subscription",
                    "queue_list_subscription_social", "export_members", "send"}
    THEN create_member_notices(at, inp, loc, world)
    ELSE create_member_files(at, inp, loc, world)

\* a call of create_member: any account state, any arguments
CreateMemberInit ==
    /\ BaseIdle
    /\ TkRestIdle
    /\ tk_task = "create_member"
    /\ tk_in \in [record : {"unchanged", "created"},
                  existing : {"absent", "same", "differs"},
                  new_passwd : BOOLEAN,
                  mail_handler : MailHandlers,
                  social : BOOLEAN,
                  forward : BOOLEAN]
    /\ tk_pc = "ensure_member"
    /\ tk_loc = [res_record |-> Leaf(None), new_user |-> FALSE, passwd |-> None]
    /\ tk_world = [user |-> tk_in.existing /= "absent", stale |-> FALSE, nis |-> FALSE,
                   waited |-> FALSE, homes |-> 0, forward |-> tk_in.forward,
                   forward_made |-> FALSE]
    /\ tk_trace = <<>>

\* Result.collect: next(gen) on create_member
ResumeCreateMember ==
    /\ tk_task = "create_member"
    /\ tk_pc \notin {"off", "returned"}
    /\ LET r == create_member_step(tk_pc, tk_in, tk_loc, tk_world)
       IN  /\ tk_loc' = r.loc
           /\ tk_world' = r.world
           /\ tk_pc' = r.next
    /\ tk_trace' = Append(tk_trace, tk_pc)
    /\ UNCHANGED <<tk_task, tk_in>>
    /\ UNCHANGED tk_frame

CreateMemberNext == ResumeCreateMember

SpecCreateMember == CreateMemberInit /\ [][CreateMemberNext]_vars

(***************************************************************************)
(* tasks/membership.py: create_society, driven by Result.collect           *)
(***************************************************************************)
\* _sync_society_admins: a collected Result with no part when the sets agree,
\* and otherwise one part for each admin added or removed and one for each of
\* the two role syncs
sync_society_admins_result(before, wanted) ==
    IF before = wanted
    THEN [state |-> None, parts |-> <<>>]
    ELSE [state |-> None, parts |-> <<Leaf("success"), Leaf("unchanged"), Leaf("unchanged")>>]

\* `if res:` on the value a yield expression gave; None is false
holds(res) == res /= <<>> /\ Result_bool(res[1])

\* create_society after _sync_society_admins: the checks of lines 196-203,
\* from the given one on, pick the next yield
create_society_tail(from, loc) ==
    IF from <= 196 /\ Result_bool(loc.res_record) THEN "update_quotas"
    ELSE IF from <= 198 /\ holds(loc.res_admins) THEN "generate_sudoers"
    ELSE IF from <= 200 /\ Result_bool(loc.res_record) THEN "export_members"
    ELSE IF from <= 202 /\ loc.new_user THEN "send"
    ELSE "returned"

\* create_society: the step the generator is suspended at runs, the locals
\* take what the yield expression gives, and the generator runs on to its
\* next yield
create_society_step(at, inp, loc, world) ==
    CASE at = "ensure_society" ->
            [loc |-> [loc EXCEPT !.res_record = Leaf(inp.record)], world |-> world,
             next |-> "ensure_group"]
      [] at = "ensure_group" ->
            [loc |-> loc, world |-> world, next |-> "ensure_user"]
      [] at = "ensure_user" ->
            [loc |-> [loc EXCEPT !.new_user = state(ensure_user(inp.existing)) = "created"],
             world |-> [world EXCEPT !.user = TRUE, !.stale = @ \/ inp.existing /= "same"],
             next |-> "update_nis"]
      [] at = "update_nis" ->
            [loc |-> loc, world |-> update_nis(loc.new_user, world), next |-> "create_home"]
      [] at = "create_home" ->
            [loc |-> loc, world |-> [world EXCEPT !.homes = @ + 1],
             next |-> "create_home_public"]
      [] at = "create_home_public" ->
            [loc |-> loc, world |-> [world EXCEPT !.homes = @ + 1],
             next |-> "set_home_exim_acl"]
      [] at = "set_home_exim_acl" ->
            [loc |-> loc, world |-> world, next |-> "create_public_html"]
      [] at = "create_public_html" ->
            [loc |-> loc, world |-> world, next |-> "sync_society_admins"]
      [] at = "sync_society_admins" ->
            LET res == sync_society_admins_result(world.admins, inp.admins)
                res_admins == resumed([form |-> "yield", result |-> res])
                after == [loc EXCEPT !.res_admins = res_admins]
            IN  [loc |-> after, world |-> [world EXCEPT !.admins = inp.admins],
                 next |-> create_society_tail(196, after)]
      [] at = "update_quotas" ->
            [loc |-> loc, world |-> world, next |-> create_society_tail(198, loc)]
      [] at = "generate_sudoers" ->
            [loc |-> loc, world |-> [world EXCEPT !.sudoers = TRUE],
             next |-> create_society_tail(200, loc)]
      [] at = "export_members" ->
            [loc |-> loc, world |-> world, next |-> create_society_tail(202, loc)]
      [] at = "send" ->
            [loc |-> loc, world |-> world, next |-> "returned"]

\* a call of create_society: a new society or one that exists, with any
\* admins before and any admins asked for
CreateSocietyInit ==
    /\ BaseIdle
    /\ TkRestIdle
    /\ tk_task = "create_society"
    /\ tk_in \in [record : {"unchanged", "created"},
                  existing : {"absent", "same", "differs"},
                  before : SUBSET Crsids,
                  admins : SUBSET Crsids]
    /\ tk_pc = "ensure_society"
    /\ tk_loc = [res_record |-> Leaf(None), new_user |-> FALSE, res_admins |-> <<>>]
    /\ tk_world = [user |-> tk_in.existing /= "absent", stale |-> FALSE, nis |-> FALSE,
                   waited |-> FALSE, homes |-> 0, admins |-> tk_in.before,
                   sudoers |-> FALSE]
    /\ tk_trace = <<>>

\* Result.collect: next(gen) on create_society
ResumeCreateSociety ==
    /\ tk_task = "create_society"
    /\ tk_pc \notin {"off", "returned"}
    /\ LET r == create_society_step(tk_pc, tk_in, tk_loc, tk_world)
       IN  /\ tk_loc' = r.loc
           /\ tk_world' = r.world
           /\ tk_pc' = r.next
    /\ tk_trace' = Append(tk_trace, tk_pc)
    /\ UNCHANGED <<tk_task, tk_in>>
    /\ UNCHANGED tk_frame

CreateSocietyNext == ResumeCreateSociety

SpecCreateSociety == CreateSocietyInit /\ [][CreateSocietyNext]_vars

(***************************************************************************)
(* tasks/membership.py: cancel_member, driven by Result.collect            *)
(***************************************************************************)
\* the societies the member may be an admin of
SocietyNames == {"soc1", "soc2"}

\* the member being cancelled
Cancelled == "ab1"

\* member.societies
societies_of(socs, member) == {s \in SocietyNames : member \in socs[s].admins}

\* the steps of a trace that the sequence names come in the sequence's order
in_order(trace, sequence) ==
    \A i, j \in DOMAIN trace :
        (i < j /\ first(sequence, trace[i]) > 0 /\ first(sequence, trace[j]) > 0)
            => first(sequence, trace[i]) <= first(sequence, trace[j])

\* cancel_member after pgsql.disable_account and after each removal: the
\* loop over the societies left, then update_nis
cancel_member_loop(todo) == IF todo = {} THEN "update_nis" ELSE "remove_society_admin"

\* cancel_member: the step the generator is suspended at runs, the locals
\* take what the yield expression gives, and the generator runs on to its
\* next yield; society is the one the for loop has drawn
cancel_member_step(at, inp, loc, world, society) ==
    CASE at = "enable_user" ->
            [loc |-> [loc EXCEPT !.res_user = Leaf(IF world.shell THEN "success"
                                                   ELSE "unchanged")],
             world |-> [world EXCEPT !.shell = FALSE, !.stale = @ \/ world.shell],
             next |-> "clear_crontab"]
      [] at = "clear_crontab" -> [loc |-> loc, world |-> world, next |-> "slay_user"]
      [] at = "slay_user" -> [loc |-> loc, world |-> world, next |-> "archive_website"]
      [] at = "archive_website" -> [loc |-> loc, world |-> world, next |-> "ensure_member"]
      [] at = "ensure_member" ->
            LET r == cancel_member(<<world.row>>, inp.is_member)
            IN  IF r.raised
                THEN [loc |-> loc, world |-> world, next |-> "raised"]
                ELSE [loc |-> [loc EXCEPT !.res_member =
                                   Leaf(IF r.found[1] = world.row THEN "unchanged"
                                        ELSE "success")],
                      world |-> [world EXCEPT !.row = r.found[1]],
                      next |-> "mysql.drop_account"]
      [] at = "mysql.drop_account" ->
            [loc |-> loc, world |-> world, next |-> "pgsql.disable_account"]
      [] at = "pgsql.disable_account" ->
            LET societies == IF inp.keep_groups THEN {}
                             ELSE societies_of(world.socs, Cancelled)
            IN  [loc |-> [loc EXCEPT !.societies = societies], world |-> world,
                 next |-> cancel_member_loop(societies)]
      [] at = "remove_society_admin" ->
            LET t == remove_society_admin(world.socs[society], Cancelled)
                left == loc.societies \ {society}
            IN  [loc |-> [loc EXCEPT !.societies = left],
                 world |-> [world EXCEPT
                     !.socs[society] = t.soc,
                     !.synced = IF /\ \E k \in DOMAIN t.calls :
                                          t.calls[k] = "mysql.sync_society_roles"
                                   /\ \E k \in DOMAIN t.calls :
                                          t.calls[k] = "pgsql.sync_society_roles"
                                THEN @ \cup {society} ELSE @],
                 next |-> cancel_member_loop(left)]
      [] at = "update_nis" ->
            [loc |-> loc, world |-> update_nis(FALSE, world),
             next |-> IF Result_bool(loc.res_user) \/ Result_bool(loc.res_member)
                      THEN "log_to_file" ELSE "returned"]
      [] at = "log_to_file" -> [loc |-> loc, world |-> world, next |-> "send"]
      [] at = "send" -> [loc |-> loc, world |-> world, next |-> "returned"]

\* a call of cancel_member on a member on record, whatever their flags,
\* shell and societies
CancelMemberInit ==
    /\ BaseIdle
    /\ TkRestIdle
    /\ tk_task = "cancel_member"
    /\ tk_in \in [is_member : {None, "True", "False"},
                  keep_groups : BOOLEAN,
                  row : MemberRows,
                  shell : BOOLEAN,
                  socs : [SocietyNames -> {[exists |-> TRUE, admins |-> a, group |-> a] :
                                             a \in SUBSET {Cancelled, "cd2"}}]]
    /\ tk_pc = "enable_user"
    /\ tk_loc = [res_user |-> Leaf(None), res_member |-> Leaf(None), societies |-> {}]
    /\ tk_world = [shell |-> tk_in.shell, row |-> tk_in.row, socs |-> tk_in.socs,
                   synced |-> {}, stale |-> FALSE, nis |-> FALSE, waited |-> FALSE]
    /\ tk_trace = <<>>

\* Result.collect: next(gen) on cancel_member
ResumeCancelMember ==
    /\ tk_task = "cancel_member"
    /\ tk_pc \notin {"off", "returned", "raised"}
    /\ \E society \in (IF tk_pc = "remove_society_admin" THEN tk_loc.societies
                       ELSE {"none"}) :
           LET r == cancel_member_step(tk_pc, tk_in, tk_loc, tk_world, society)
           IN  /\ tk_loc' = r.loc
               /\ tk_world' = r.world
               /\ tk_pc' = r.next
    /\ tk_trace' = Append(tk_trace, tk_pc)
    /\ UNCHANGED <<tk_task, tk_in>>
    /\ UNCHANGED tk_frame

CancelMemberNext == ResumeCancelMember

SpecCancelMember == CancelMemberInit /\ [][CancelMemberNext]_vars

(***************************************************************************)
(* tasks/membership.py: delete_society, driven by Result.collect           *)
(***************************************************************************)
DomainNames == {"a.example", "b.example"}

ListSuffixes == {"committee"}

\* the session sends its pending changes before a query (autoflush): the
\* deleted domain rows leave the table; a session made with autocommit=True
\* commits the flush, and the commit expires every loaded attribute
autoflush(world, autocommit) ==
    IF world.pending = {} /\ ~world.admins_dirty
    THEN world
    ELSE [world EXCEPT !.rows = @ \ world.pending,
                       !.pending = {},
                       !.admins_dirty = FALSE,
                       !.domains = IF autocommit THEN <<>> ELSE @,
                       !.admins_loaded = IF autocommit THEN FALSE ELSE @]

\* society.admins is read: an expired collection is loaded with a query
read_admins(world, autocommit) ==
    IF world.admins_loaded THEN world
    ELSE [autoflush(world, autocommit) EXCEPT !.admins_loaded = TRUE]

\* society.domains is read: the collection is loaded with a query the first
\* time and after it expired, and is kept as loaded otherwise; sess.delete
\* of a row takes nothing out of a loaded collection
read_domains(world, autocommit) ==
    IF world.domains /= <<>> THEN world
    ELSE LET flushed == autoflush(world, autocommit)
         IN  [flushed EXCEPT !.domains = <<flushed.rows>>]

\* _sync_society_admins(sess, society, set(), ...): nothing for an empty
\* admin set; get_member raises KeyError on an admin who is no longer a
\* member, after the admins in removed have been taken out
sync_society_admins(world, inp, removed) ==
    LET read == read_admins(world, inp.autocommit)
    IN  IF read.admins = {}
        THEN [world |-> read, raised |-> None]
        ELSE [world |-> [read EXCEPT !.admins = @ \ removed, !.admins_dirty = TRUE],
              raised |-> IF read.admins \cap inp.lapsed /= {} THEN "KeyError" ELSE None]

\* bespoke.archive_society_files: _archive_files raises when today's archive
\* exists; summarise_society reads society.admins and society.domains
archive_society_files(world, inp) ==
    IF inp.archive_exists
    THEN [world |-> world, raised |-> "FileExistsError"]
    ELSE [world |-> [read_domains(read_admins(world, inp.autocommit), inp.autocommit)
                        EXCEPT !.archived = TRUE],
          raised |-> None]

\* bespoke.remove_custom_domain: a query for the row, then sess.delete
remove_custom_domain(world, inp, name) ==
    [autoflush(world, inp.autocommit) EXCEPT !.pending = @ \cup {name}]

\* bespoke.delete_society: the two checks, then sess.delete(society)
delete_society(world, inp) ==
    LET admins_read == read_admins(world, inp.autocommit)
        domains_read == read_domains(admins_read, inp.autocommit)
    IN  IF admins_read.admins /= {}
        THEN [world |-> admins_read, raised |-> "ValueError"]
        ELSE IF domains_read.domains[1] /= {}
        THEN [world |-> domains_read, raised |-> "ValueError"]
        ELSE [world |-> [domains_read EXCEPT !.record = FALSE], raised |-> None]

\* delete_society at `for domain in bespoke.get_custom_domains(sess, society)`:
\* the query, and the loop over its rows
delete_society_domains(loc, world, inp) ==
    LET queried == autoflush(world, inp.autocommit)
    IN  [loc |-> [loc EXCEPT !.domains = queried.rows],
         world |-> queried,
         next |-> IF queried.rows = {} THEN "scrub_user" ELSE "remove_custom_domain"]

\* delete_society up to the loops: the step the generator is suspended at
\* runs, and the generator runs on to its next yield or raises
delete_society_files(at, inp, loc, world, drawn) ==
    CASE at = "sync_society_admins" ->
            LET r == sync_society_admins(world, inp, drawn)
            IN  [loc |-> loc, world |-> r.world,
                 next |-> IF r.raised = None THEN "clear_crontab" ELSE r.raised]
      [] at = "clear_crontab" -> [loc |-> loc, world |-> world, next |-> "slay_user"]
      [] at = "slay_user" -> [loc |-> loc, world |-> world, next |-> "archive_society_files"]
      [] at = "archive_society_files" ->
            LET r == archive_society_files(world, inp)
            IN  [loc |-> loc, world |-> r.world,
                 next |-> IF r.raised = None THEN "delete_files" ELSE r.raised]
      [] at = "delete_files" ->
            [loc |-> loc, world |-> [world EXCEPT !.files = FALSE],
             next |-> "mysql.drop_all_databases"]
      [] at = "mysql.drop_all_databases" ->
            [loc |-> loc, world |-> world, next |-> "mysql.drop_account"]
      [] at = "mysql.drop_account" ->
            [loc |-> loc, world |-> world, next |-> "pgsql.drop_all_databases"]
      [] at = "pgsql.drop_all_databases" ->
            [loc |-> loc, world |-> world, next |-> "pgsql.drop_account"]
      [] at = "pgsql.drop_account" ->
            IF inp.lists = {}
            THEN delete_society_domains(loc, world, inp)
            ELSE [loc |-> [loc EXCEPT !.lists = inp.lists], world |-> world,
                  next |-> "remove_list"]

\* delete_society from the loops on
delete_society_record(at, inp, loc, world, drawn) ==
    CASE at = "remove_list" ->
            LET left == [loc EXCEPT !.lists = @ \ {drawn}]
            IN  IF left.lists = {}
                THEN delete_society_domains(left, world, inp)
                ELSE [loc |-> left, world |-> world, next |-> "remove_list"]
      [] at = "remove_custom_domain" ->
            [loc |-> [loc EXCEPT !.domains = @ \ {drawn}],
             world |-> remove_custom_domain(world, inp, drawn),
             next |-> IF loc.domains = {drawn} THEN "scrub_user" ELSE "remove_custom_domain"]
      [] at = "scrub_user" -> [loc |-> loc, world |-> world, next |-> "scrub_group"]
      [] at = "scrub_group" -> [loc |-> loc, world |-> world, next |-> "update_nis"]
      [] at = "update_nis" -> [loc |-> loc, world |-> world, next |-> "delete_society"]
      [] at = "delete_society" ->
            LET r == delete_society(world, inp)
            IN  [loc |-> loc, world |-> r.world,
                 next |-> IF r.raised = None THEN "export_members" ELSE r.raised]
      [] at = "export_members" -> [loc |-> loc, world |-> world, next |-> "log_to_file"]
      [] at = "log_to_file" -> [loc |-> loc, world |-> world, next |-> "send"]
      [] at = "send" -> [loc |-> loc, world |-> world, next |-> "returned"]

\* delete_society
delete_society_step(at, inp, loc, world, drawn) ==
    IF at \in {"sync_society_admins", "clear_crontab", "slay_user", "archive_society_files",
               "delete_files", "mysql.drop_all_databases", "mysql.drop_account",
               "pgsql.drop_all_databases", "pgsql.drop_account"}
    THEN delete_society_files(at, inp, loc, world, drawn)
    ELSE delete_society_record(at, inp, loc, world, drawn)

\* what the step at hand may draw: the admins removed before a KeyError, the
\* list or the domain the loop comes to
draws(at, inp, loc, world) ==
    CASE at = "sync_society_admins" ->
            IF world.admins \cap inp.lapsed /= {}
            THEN SUBSET (world.admins \ inp.lapsed)
            ELSE {world.admins}
      [] at = "remove_list" -> loc.lists
      [] at = "remove_custom_domain" -> loc.domains
      [] OTHER -> {"none"}

\* the places the generator stops at for good
Ended == {"off", "returned", "KeyError", "FileExistsError", "ValueError"}

\* a call of delete_society on a society on record, the object fresh from
\* get_society: any admins, lapsed members among them or not, any custom
\* domains and lists, with or without an archive of today
DeleteSocietyInit ==
    /\ BaseIdle
    /\ TkRestIdle
    /\ tk_task = "delete_society"
    /\ tk_in \in {i \in [admins : SUBSET {"ab1", "cd2"},
                         lapsed : SUBSET {"ab1", "cd2"},
                         domains : SUBSET DomainNames,
                         lists : SUBSET ListSuffixes,
                         archive_exists : BOOLEAN,
                         autocommit : BOOLEAN] : i.lapsed \subseteq i.admins}
    /\ tk_pc = "sync_society_admins"
    /\ tk_loc = [lists |-> {}, domains |-> {}]
    /\ tk_world = [admins |-> tk_in.admins, admins_loaded |-> FALSE, admins_dirty |-> FALSE,
                   rows |-> tk_in.domains, pending |-> {}, domains |-> <<>>,
                   archived |-> FALSE, files |-> TRUE, record |-> TRUE]
    /\ tk_trace = <<>>

\* Result.collect: next(gen) on delete_society
ResumeDeleteSociety ==
    /\ tk_task = "delete_society"
    /\ tk_pc \notin Ended
    /\ \E drawn \in draws(tk_pc, tk_in, tk_loc, tk_world) :
           LET r == delete_society_step(tk_pc, tk_in, tk_loc, tk_world, drawn)
           IN  /\ tk_loc' = r.loc
               /\ tk_world' = r.world
               /\ tk_pc' = r.next
    /\ tk_trace' = Append(tk_trace, tk_pc)
    /\ UNCHANGED <<tk_task, tk_in>>
    /\ UNCHANGED tk_frame

DeleteSocietyNext == ResumeDeleteSociety

SpecDeleteSociety == DeleteSocietyInit /\ [][DeleteSocietyNext]_vars





(***************************************************************************)
(* Properties                                                              *)
(***************************************************************************)
\* positions of a runner that got past the lock attempt of connect()
Holding == {"query", "next", "skipped", "find", "claim", "run", "commit"}

\* C1: Job.transition(a) on a job in state s moves the state from
\* a.old_state to a.new_state without raising when s = a.old_state, and
\* raises JobActionInvalid leaving state and state_message as they were
\* when s /= a.old_state; there is no other change of state.
C1_TransitionFsm ==
    t_call.action /= None =>
        LET a == JobAction[t_call.action]
        IN  IF t_call.old.state = a.old_state
            THEN ~t_call.raised /\ t_job.state = a.new_state
            ELSE t_call.raised /\ t_job = t_call.old

\* a valid transition has been made after an invalid one was refused
C1_Witness ==
    /\ t_call.action = "retry"
    /\ ~t_call.raised
    /\ t_call.old.state = "failed"
    /\ t_job.state = "queued"

\* C2: at most one runner is past connect() at any time and it holds the
\* advisory lock for as long as it lives; a runner that connects while
\* another one is past connect() ends with DatabaseLocked, and one that
\* connects while no other is gets past it.
C2_SingleRunner ==
    /\ [](/\ Cardinality({r \in Runners : pc[r] \in Holding}) <= 1
          /\ \A r \in Runners : pc[r] \in Holding <=> lock_holder = r)
    /\ [][\A r \in Runners :
            pc[r] = "connect" /\ pc'[r] \notin {"connect", "killed"} =>
                IF \E o \in Runners \ {r} : pc[o] \in Holding
                THEN pc'[r] = "locked"
                ELSE pc'[r] = "query"]_vars

\* a second runner was refused and the first has committed a job
C2_Witness ==
    \E r, o \in Runners :
        /\ pc[r] = "locked"
        /\ pc[o] = "next"
        /\ \E i \in DOMAIN rows : rows[i].state = "done"

\* C3: a dispatch whose re-read row is not queued ends at `continue` and
\* changes neither the row nor the log; a handler is started only for a row
\* that became queued since its handler was last started.
C3_DispatchOnce ==
    [][\A r \in Runners :
         /\ (pc[r] = "find" /\ pc'[r] \notin {"find", "killed"}
                /\ rows[cur[r]].state /= "queued")
            => (pc'[r] \in {"skipped", "crashed"} /\ rows' = rows /\ log' = log)
         /\ (pc[r] /= "run" /\ pc'[r] = "run")
            => (fresh[cur'[r]] /\ ~fresh'[cur'[r]])]_vars

\* an id was yielded again after its job was done, and was skipped
C3_Witness ==
    \E r \in Runners :
        /\ pc[r] = "skipped"
        /\ rows[cur[r]].state = "done"
        /\ ~fresh[cur[r]]

\* C4: the backlog ids are yielded in ascending job_id order.
C4_BacklogAscending ==
    \A r \in Runners :
        \A a, b \in DOMAIN existing_ids[r] :
            a < b => existing_ids[r][a] < existing_ids[r][b]

\* C5: a queued job whose notification is the one pending on the connection
\* of a runner that has drained its backlog and waits for notifications is
\* moved to running by that runner (unless an operator moves the row first,
\* the runner process ends, or further notifications are queued behind it).
C5_NotificationWakeUp ==
    \A r \in Runners, j \in JobIds :
        (/\ pc[r] \in {"next", "skipped"}
         /\ existing_ids[r] = <<>>
         /\ j \in DOMAIN rows
         /\ rows[j].state = "queued"
         /\ notifies[r] = <<j>>)
            ~> (\/ pc[r] = "run" /\ cur[r] = j
                \/ j \in DOMAIN rows /\ rows[j].state /= "queued"
                \/ pc[r] \in Dead
                \/ Len(notifies[r]) > 1)

\* the notified job is running in the runner that waited
C5_Witness ==
    \E r \in Runners :
        /\ pc[r] = "run"
        /\ existing_ids[r] = <<>>
        /\ notifies[r] = <<>>
        /\ rows[cur[r]].state = "running"
        /\ \A i \in DOMAIN rows : i /= cur[r] => rows[i].state = "unapproved"

\* C6: the state of a row in a terminal state changes only by repeat
\* (done to queued) and retry (failed to queued).
C6_TerminalImmutable ==
    [][\A i \in DOMAIN rows :
         rows[i].state \in Terminal /\ rows'[i].state /= rows[i].state =>
            rows[i].state \in {"done", "failed"} /\ rows'[i].state = "queued"]_vars

\* the row and the mail that main is to produce for each handler outcome
C7_Expected(outcome) ==
    CASE outcome = "return_none" -> <<"done", "Completed", FALSE>>
      [] outcome = "return_message" -> <<"done", "handler message", FALSE>>
      [] outcome = "jobfailed_none" -> <<"failed", "Aborted", TRUE>>
      [] outcome = "jobfailed_message" -> <<"failed", "failure message", TRUE>>
      [] outcome = "exception" -> <<"failed", "exception summary", TRUE>>

\* C7: the commit that ends a dispatch writes done with the returned message
\* (or "Completed") when the handler returned, failed with the JobFailed
\* message (or "Aborted") or with the exception summary when it raised, and
\* the sysadmins were mailed for this run exactly when the row is written
\* as failed.
C7_Outcome ==
    [][\A r \in Runners :
         pc[r] = "commit" /\ pc'[r] = "next" =>
            LET i == cur[r]
                e == C7_Expected(run[r].outcome)
            IN  /\ rows'[i].state = e[1]
                /\ rows'[i].state_message = e[2]
                /\ emails'[i] = e[3]
                /\ emails'[i] <=> rows'[i].state = "failed"]_vars

\* a job was committed as failed after JobFailed without a message, with a mail
C7_Witness ==
    \E i \in DOMAIN rows :
        /\ rows[i].state = "failed"
        /\ rows[i].state_message = "Aborted"
        /\ emails[i]

\* a running row that no live runner is executing
Orphan(i) ==
    /\ rows[i].state = "running"
    /\ \A r \in Runners : ~(pc[r] \in {"run", "commit"} /\ cur[r] = i)

\* C8: a row left running by a runner that ended stays running until an
\* operator aborts it (running to failed), and no runner starts on it.
C8_RunningNotResumed ==
    [][\A i \in DOMAIN rows :
         Orphan(i) =>
            /\ rows'[i].state \in {"running", "failed"}
            /\ \A r \in Runners :
                  pc'[r] \in {"claim", "run", "commit"} => cur'[r] /= i]_vars

\* after a kill, the next runner was given the id of the running row and
\* skipped it
C8_Witness ==
    \E i \in DOMAIN rows, r, o \in Runners :
        /\ Orphan(i)
        /\ pc[o] = "killed"
        /\ pc[r] = "skipped"
        /\ cur[r] = i

\* C9: every dispatch runs through to its final commit: no outcome of
\* Job.find / resolve_references, of the handler or of the failure mail
\* ends the runner with the row left queued or running.
C9_DispatchCompletes ==
    \A r \in Runners : pc[r] /= "crashed"

\* the largest state of the children, unchanged when there are none
C10_Max(parts) ==
    LET vs == {value(state(parts[k])) : k \in DOMAIN parts} \cup {0}
        m == CHOOSE v \in vs : \A w \in vs : w <= v
    IN  CHOOSE st \in States : value(st) = m

\* C10: a composite returned by Result.collect with no explicitly set state
\* reports the maximum of its children's states.
C10_StateIsMax ==
    (res_pc = "returned" /\ res_state = None) => state(Composite) = C10_Max(res_parts)

\* C11: a Result whose state was set explicitly reports exactly that state,
\* whatever the states of its parts.
C11_ExplicitState ==
    (res_pc = "returned" /\ res_state /= None) => state(Composite) = res_state

\* C12: bool(r) is false exactly when r.state is unchanged, for the composite
\* and for each of its parts.
C12_Truthiness ==
    \A r \in {Composite} \cup Range(res_parts) :
        /\ ~Result_bool(r) <=> state(r) = "unchanged"
        /\ Result_bool(r) <=> state(r) \in {"success", "created"}

\* a composite without a state of its own is true over a false and a true part
C12_Witness ==
    /\ res_pc = "returned"
    /\ res_state = None
    /\ Len(res_parts) = 2
    /\ ~Result_bool(res_parts[1])
    /\ Result_bool(res_parts[2])
    /\ Result_bool(Composite)

\* the Results the task has yielded, in yield order
C13_Yielded == [k \in DOMAIN gen_yields |-> gen_yields[k].result]

\* C13: the parts are the yielded Results in yield order, each appended
\* before the task is resumed; the composite's value is the task's return
\* value; every yield expression the task was resumed from evaluated to the
\* child it yielded.
C13_CollectOrder ==
    /\ res_pc \in {"collect", "returned"} => res_parts = C13_Yielded
    /\ res_pc = "append" => res_parts = Front(C13_Yielded)
    /\ res_pc = "returned" => res_value = gen_return
    /\ \A k \in DOMAIN gen_got : gen_got[k] = <<gen_yields[k].result>>

\* s occurs in text as a run of consecutive characters
C14_Contains(text, s) ==
    \E k \in 0..(Len(text) - Len(s)) : SubSeq(text, k + 1, k + Len(s)) = s

\* C14: repr of a Password does not contain the secret and is the same for
\* any two secrets, also after wrap() calls; str(p.wrap(t2)) is t2 with the
\* placeholder replaced by str(p).
C14_Redaction ==
    pw_pc.at \in {"made", "wrapped"} =>
        /\ ~Password_repr(pw).raised
        /\ ~C14_Contains(Password_repr(pw).out, pw.value)
        /\ Password_repr(pw) = Password_repr(pw_twin)
        /\ pw_pc.at = "wrapped" =>
              /\ ~Password_str(pw).raised
              /\ Password_str(pw) = format(pw_tpl, Password_str(pw_prev).out)

\* C15: a call of a function wrapped with require_host(h1..hn) raises
\* RuntimeError and runs none of the body when platform.node() is not one of
\* h1..hn, and otherwise runs the body and returns its result unchanged.
C15_HostGuard ==
    [][rh_out' /= rh_out \/ rh_body' /= rh_body =>
         IF rh_out'.node \notin rh_hosts
         THEN rh_out'.raised /\ rh_body' = rh_body
         ELSE ~rh_out'.raised /\ rh_body' = rh_body + 1
                 /\ rh_out'.result = rh_out'.returns]_vars

\* a call on a host that is not allowed raised after a call on an allowed
\* host had run the body
C15_Witness ==
    /\ rh_out.raised
    /\ rh_out.node \notin rh_hosts
    /\ rh_hosts /= {}
    /\ rh_body = 1

\* C16: a plumbing call that repeats the call made just before it leaves
\* the system as it was and returns unchanged.
C16_Idempotent ==
    id_repeat => (System = id_prev /\ id_res = "unchanged")

\* C17: unix.symlink(link, target) creates the link and returns created only
\* when nothing is at the link path, and otherwise changes nothing and returns
\* unchanged; with needed=False it removes the path only when it is a link
\* to target; no other path is touched.
C17_Symlink ==
    sl_call /= <<>> =>
        LET link == sl_call[1]
            target == sl_call[2]
            needed == sl_call[3]
            before == sl_prev[link]
        IN  /\ \A q \in Paths \ {link} : fs[q] = sl_prev[q]
            /\ IF needed
               THEN IF before = Absent
                    THEN fs[link] = Link(target) /\ sl_res = "created"
                    ELSE fs[link] = before /\ sl_res = "unchanged"
               ELSE IF before = Link(target)
                    THEN fs[link] = Absent
                    ELSE fs[link] = before /\ sl_res = "unchanged"

\* a link to another target was at the path and was left alone
C17_Witness ==
    /\ sl_call /= <<>>
    /\ sl_call[3]
    /\ sl_prev[sl_call[1]].kind = "link"
    /\ sl_prev[sl_call[1]].to /= sl_call[2]
    /\ fs = sl_prev
    /\ sl_res = "unchanged"

\* the last call was ensure_user
C18_Ensured == sql_call /= <<>> /\ sql_call[2] = "ensure_user"

\* the name given to the last call was on the server before it
C18_Existed ==
    IF sql_call[1] = "mysql" THEN sql_call[3] \in sql_prev.users
    ELSE sql_call[3] \in DOMAIN sql_prev.roles

\* the name given to the last call is on the server, and a statement with
\* the returned password was sent for it
C18_Created ==
    /\ IF sql_call[1] = "mysql" THEN sql_call[3] \in my_users
       ELSE sql_call[3] \in DOMAIN pg_roles
    /\ sql_out.value = NewPassword
    /\ \E k \in DOMAIN sql_sent : NewPassword \in Range(sql_sent[k].args)

\* C18 as claimed: ensure_user creates the user with a fresh password when
\* the name is absent; on a pre-existing user it changes nothing and returns
\* unchanged; the Result carries a Password exactly when a user was created.
C18_EnsureUserNoop ==
    (C18_Ensured /\ ~sql_out.raised) =>
        /\ ~C18_Existed => C18_Created
        /\ C18_Existed => (Server = sql_prev /\ sql_out.state = "unchanged")
        /\ sql_out.value /= None <=> ~C18_Existed

\* C18 as amended: on a pre-existing user that can log in ensure_user
\* changes nothing and returns unchanged, and PostgreSQL gives a pre-existing
\* role without LOGIN the LOGIN privilege, that alone, and returns success.
C18_EnsureUser ==
    C18_Ensured =>
        LET name == sql_call[3]
            disabled == sql_call[1] = "pgsql" /\ C18_Existed /\ ~sql_prev.roles[name]
        IN  /\ sql_out.raised <=> (/\ sql_call[1] = "pgsql"
                                   /\ DQ \in Range(name)
                                   /\ ~C18_Existed \/ disabled)
            /\ sql_out.raised => Server = sql_prev
            /\ ~sql_out.raised =>
                  /\ ~C18_Existed => C18_Created
                  /\ (C18_Existed /\ ~disabled) =>
                        (Server = sql_prev /\ sql_out.state = "unchanged")
                  /\ disabled =>
                        /\ pg_roles = With(sql_prev.roles, name, TRUE)
                        /\ my_users = sql_prev.users
                        /\ sql_out.state = "success"
                  /\ sql_out.value /= None <=> ~C18_Existed

\* ensure_user found the user in each dialect, after creating it in one
C18_Witness ==
    /\ C18_Ensured
    /\ C18_Existed
    /\ sql_out.state = "unchanged"
    /\ sql_out.value = None
    /\ Server = sql_prev
    /\ \E n \in SqlNames : n \in my_users /\ n \in DOMAIN pg_roles /\ pg_roles[n]

\* the identifier quote of each dialect
C19_Quote == [mysql |-> BQ, pgsql |-> DQ]

\* C19: a call that puts its name into the SQL text as an identifier
\* (create_database, reset_password) and is given a name that contains the
\* identifier quote of its dialect raises before any statement is sent to
\* the server.
C19_QuoteRejected ==
    (/\ sql_call /= <<>>
     /\ sql_call[2] \in {"create_database", "reset_password"}
     /\ C19_Quote[sql_call[1]] \in Range(sql_call[3])) =>
        (sql_out.raised /\ sql_sent = <<>>)

\* C20: for every valid owner name n, _user_name_rev(_user_name(n)) = n, and
\* two distinct owner names never get the same SQL user name.
C20_NameRoundTrip ==
    /\ nm_rev /= None => nm_rev = nm_owner
    /\ (nm_user /= None /\ nm_owner /= nm_other) => nm_user /= nm_other_user

C30_Holders(srv) ==
    IF sy_dialect = "mysql"
    THEN {g \in srv.my.grants : g[1] \in Crsids}
    ELSE {m \in srv.pg.members : m[1] \in Crsids}

\* the grants the society's admins with an account are to hold
C30_Needed(srv) ==
    IF sy_dialect = "mysql"
    THEN (srv.my.users \cap sy_admins)
            \X {database_name(sy_soc, None), database_name(sy_soc, "%")}
    ELSE (DOMAIN srv.pg.roles \cap sy_admins) \X (DOMAIN srv.pg.roles \cap {sy_soc})

\* C30: after sync_society_roles the member accounts holding the society's
\* role or database grants are the society's admins that have an SQL
\* account; one GRANT was sent per (user, object) needed and not held, one
\* REVOKE per (user, object) held and not needed; the grants of accounts
\* of no member are as they were.
C30_SyncReconciles ==
    sy_calls >= 1 =>
        LET now == [my |-> sy_my, pg |-> sy_pg]
            held == C30_Holders(sy_prev)
            needed == C30_Needed(sy_prev)
        IN  /\ C30_Holders(now) = needed
            /\ sy_sent = {RoleStatement("GRANT", p[1], p[2]) : p \in needed \ held}
                            \cup {RoleStatement("REVOKE", p[1], p[2]) : p \in held \ needed}
            /\ {g \in sy_my.grants : g[1] \notin Crsids}
                    = {g \in sy_prev.my.grants : g[1] \notin Crsids}
            /\ {m \in sy_pg.members : m[1] \notin Crsids}
                    = {m \in sy_prev.pg.members : m[1] \notin Crsids}

\* the sensitive keys of the job types
C22_SensitiveKeys ==
    [signup |-> {"preferred_name", "surname", "email"},
     update_name |-> {"preferred_name", "surname"},
     create_society |-> {"description"},
     update_society_description |-> {"description"}]

\* every sensitive key of the row is absent or redacted
C22_Scrubbed(job) ==
    job.type \in DOMAIN C22_SensitiveKeys =>
        \A key \in C22_SensitiveKeys[job.type] :
            key \notin DOMAIN job.args \/ job.args[key] = Redacted

\* C22: after delete_member(m), every job row owned by m, and every signup
\* row for m's crsid, whose type has sensitive arguments has each sensitive
\* key absent or equal to "<redacted>", create_society rows included.
C22_MemberScrubbed ==
    \A k \in DOMAIN sc_jobs :
        \A c \in ScrubMembers :
            (/\ <<"member", c>> \in sc_deleted
             /\ \/ sc_jobs[k].owner_crsid = c
                \/ sc_jobs[k].type = "signup" /\ sc_jobs[k].args.crsid = c)
                => C22_Scrubbed(sc_jobs[k])

\* C23: after delete_society(s), every job row whose args name society s
\* and whose type has sensitive arguments has each sensitive key absent or
\* equal to "<redacted>".
C23_SocietyScrubbed ==
    \A k \in DOMAIN sc_jobs :
        \A o \in ScrubSocieties :
            (/\ <<"society", o>> \in sc_deleted
             /\ "society" \in DOMAIN sc_jobs[k].args
             /\ sc_jobs[k].args.society = o)
                => C22_Scrubbed(sc_jobs[k])

\* an entity the factory of the type is given has danger set: the member for
\* every type but signup, the society for the jobs on an existing society,
\* the target member for change_society_admin
C24_Danger ==
    \/ cr_type /= "signup" /\ cr_in.member_danger
    \/ /\ cr_type \in SocietyJobTypes
                \cup {"add_society_vhost", "update_society_role_email", "change_society_admin"}
       /\ cr_in.society_danger
    \/ cr_type = "change_society_admin" /\ cr_in.target_danger

\* a ChangeSocietyAdmin removes the last admin of a society with a role_email
C24_LastAdmin ==
    /\ cr_type = "change_society_admin"
    /\ cr_in.action = "remove"
    /\ cr_in.admins = 1
    /\ nonempty(cr_in.role_email)

C25_Suppress ==
    /\ Len(em_blocks) <= 1
    /\ em_current = IF em_blocks = <<>> THEN None ELSE em_blocks[1]
    /\ em_call /= <<>> =>
        /\ (em_call[1] = "send" /\ em_call[2] = "SuppressEmails") =>
                (em_sent = em_call[3] /\ em_res = "unchanged")
        /\ (em_call[1] = "send" /\ em_call[2] = None) =>
                (em_sent = em_call[3] + 1 /\ em_res = "success")
        /\ (em_call[1] = "enter" /\ em_call[2] /= None) =>
                (em_raised /\ em_current = em_call[2])
        /\ em_call[1] = "exit" => em_current = None

\* mail was sent, then suppressed inside a SuppressEmails block, and a
\* second wrapper was refused
C25_Witness ==
    /\ em_sent >= 1
    /\ em_res = "unchanged"
    /\ em_call = <<"enter", "SuppressEmails", em_sent>>
    /\ em_raised

\* C26: after any sequence of create_member, cancel_member,
\* reactivate_member and delete_member on a member record, user implies
\* member on the record.
C26_UserImpliesMember ==
    mb_row /= <<>> => (mb_row[1].user => mb_row[1].member)

\* a create_member with is_member False and is_user True was refused on a
\* record that earlier tasks had written
C26_Witness ==
    /\ mb_call = <<"create_member", "False", "True">>
    /\ mb_raised
    /\ mb_tasks >= 2
    /\ mb_row /= <<>>
    /\ mb_row[1].member /\ ~mb_row[1].user

\* the runner waits in notifications() with nothing on its connection while
\* row i is queued
C27_Waiting(i) ==
    /\ i \in DOMAIN rows
    /\ rows[i].state = "queued"
    /\ pc[StreamRunner] = "next"
    /\ existing_ids[StreamRunner] = <<>>
    /\ notifies[StreamRunner] = <<>>

\* C27: a row that becomes queued after the backlog drain by an operator
\* transition, with no notification sent for it, is eventually dispatched by
\* the running runner: from a wait with the row queued, the row leaves the
\* queued state unless a notification for it arrives or the runner ends.
C27_Repoll ==
    \A i \in JobIds :
        C27_Waiting(i) ~> \/ i \in DOMAIN rows /\ rows[i].state /= "queued"
                          \/ i \in Range(notifies[StreamRunner])
                          \/ pc[StreamRunner] \in Dead

\* C28: ids received as notifications are yielded in the order the
\* notifications arrived: the id notifications() yields is the one that has
\* been on the connection longest.
C28_ArrivalOrder ==
    [][\A r \in Runners :
          (pc[r] \in {"next", "skipped"} /\ pc'[r] = "find" /\ existing_ids[r] = <<>>)
              => cur'[r] = Head(notifies[r])]_vars

\* C29: when a handler raises an exception other than JobFailed, the runner
\* rolls the session back before it records the outcome: the session holds
\* no uncommitted change when main reaches set_state, nothing the handler
\* changed is committed, and once the outcome is recorded the one committed
\* change is the job row, failed with the exception summary.
C29_RolledBack ==
    se_run.outcome = "exception" =>
        /\ se_db.data = se_before.data
        /\ se_pc = "record" => se_sess = se_db
        /\ se_pc = "next" =>
              se_db = [se_before EXCEPT !.job = [state |-> "failed",
                                                 state_message |-> "exception summary"]]

\* a handler that had changed rows in the session raised, and the outcome
\* was recorded
C29_Witness ==
    /\ se_run.outcome = "exception"
    /\ se_pc = "next"
    /\ se_db.job.state = "failed"
    /\ se_at_end.data /= se_before.data
    /\ se_runs = MaxRuns

\* run has ended on a remove job against a society with exactly one admin
C31_Case ==
    /\ ad_pc = "ran"
    /\ ad_job.action = "remove"
    /\ ad_prev.exists
    /\ Cardinality(ad_prev.admins) = 1

\* the job row is failed with the message and nothing has changed
C31_Refused ==
    /\ ad_row = [state |-> "failed", state_message |-> "Removing all admins not implemented"]
    /\ ad_soc = ad_prev
    /\ ad_calls = <<>>

\* C31 as stated: a ChangeSocietyAdmin job with action remove, run against a
\* society that has exactly one admin, ends failed with the message
\* "Removing all admins not implemented" and leaves the admin set, the UNIX
\* group and the SQL grants unchanged.
C31_AsClaimed == C31_Case => C31_Refused

\* C31 amended: that holds when the job's owner is the one admin; run for
\* any other owner ends failed with the "not permitted" message instead, and
\* in both cases nothing has changed.
C31_LastAdmin ==
    C31_Case =>
        /\ ad_soc = ad_prev
        /\ ad_calls = <<>>
        /\ ad_row.state = "failed"
        /\ ad_job.owner \in ad_prev.admins => C31_Refused
        /\ ad_job.owner \notin ad_prev.admins =>
              ad_row.state_message = "is not permitted to change the admins of"

\* the one admin asked to be removed and the job was run
C31_Witness ==
    /\ C31_Case
    /\ ad_prev.admins = {ad_job.owner}
    /\ ad_job.target_member = ad_job.owner

\* the run-time check of ChangeSocietyAdmin.run
C39_Allowed ==
    /\ ad_prev.exists
    /\ ad_job.owner \in ad_prev.admins
    /\ ad_job.action = "add" =>
          ad_flags[ad_job.target_member].member /\ ad_flags[ad_job.target_member].user

\* C39: a ChangeSocietyAdmin job changes the admin set only if at run time
\* the owner is an admin of the society and, for add, the target is a member
\* and a user; otherwise run raises JobFailed before any membership, UNIX
\* group or SQL change is made.
C39_Authorised ==
    ad_pc = "ran" =>
        /\ (ad_soc /= ad_prev \/ ad_calls /= <<>>) => C39_Allowed
        /\ ~C39_Allowed => ad_out.raised = "JobFailed" /\ ad_soc = ad_prev /\ ad_calls = <<>>

\* the name policy: lowercase alphanumerics and hyphens, the last
\* hyphen-separated segment not a reserved word
C32_Policy(name) ==
    /\ \A k \in DOMAIN name : name[k] \notin {"X", "_"}
    /\ last_segment(name) \notin plumbing_reserved

\* C32: the job accepts a list name if and only if it meets the policy; a
\* rejected name makes run raise JobFailed("Invalid list suffix <name>") and
\* no list is created; the job, the task and the plumbing accept the same
\* names.
C32_NamePolicy ==
    ml_pc = "ran" =>
        /\ C32_Policy(ml_listname) <=> (ml_out.raised = None /\ ml_lists /= {})
        /\ ~C32_Policy(ml_listname) =>
              (ml_out = JobFailed("Invalid list suffix") /\ ml_lists = {})
        /\ job_accepts(ml_listname) <=> create_list({}, ml_listname).exc.raised = None
        /\ job_accepts(ml_listname) <=> plumbing_accepts(list_name(ml_listname))

\* the steps of create_member named by the ordering, in the order claimed
C33_Sequence ==
    <<"ensure_member", "ensure_group", "ensure_user", "reset_password", "update_nis",
      "create_home", "create_home_public">>

\* C33: in create_member the steps run in the order member record, UNIX
\* group, UNIX user, password reset (when it runs), NIS update, home
\* directories; no home directory is made before the NIS update has
\* completed; and for a newly created user the NIS update has waited 16
\* seconds before any home-directory step
C33_NisBeforeHomes ==
    tk_task = "create_member" =>
        /\ \A i, j \in DOMAIN C33_Sequence :
               (/\ i < j
                /\ first(tk_trace, C33_Sequence[i]) > 0
                /\ first(tk_trace, C33_Sequence[j]) > 0)
                   => first(tk_trace, C33_Sequence[i]) < first(tk_trace, C33_Sequence[j])
        /\ tk_world.homes > 0 => tk_world.nis
        /\ (tk_world.homes > 0 /\ tk_in.existing = "absent") => tk_world.waited

\* C34: create_member creates the .forward file if and only if the mail
\* handler asked for is forward and the file does not exist yet
C34_ForwardFile ==
    (tk_task = "create_member" /\ tk_pc = "returned") =>
        (tk_world.forward_made <=> (tk_in.mail_handler = "forward" /\ ~tk_in.forward))

\* C35: when the admin sync of create_society changed the admin set, sudoers
\* is regenerated: after the sync and the quota update, before the society is
\* notified
C35_Sudoers ==
    (/\ tk_task = "create_society"
     /\ tk_pc = "returned"
     /\ tk_in.before /= tk_in.admins)
        => /\ first(tk_trace, "generate_sudoers") > first(tk_trace, "sync_society_admins")
           /\ first(tk_trace, "generate_sudoers") > first(tk_trace, "update_quotas")
           /\ first(tk_trace, "send") > 0
                  => first(tk_trace, "generate_sudoers") < first(tk_trace, "send")

\* the steps of cancel_member, in the order claimed
C36_Sequence ==
    <<"enable_user", "clear_crontab", "slay_user", "archive_website", "ensure_member",
      "mysql.drop_account", "pgsql.disable_account", "remove_society_admin", "update_nis",
      "send">>

\* the steps cancel_member runs on every call that completes
C36_Always ==
    {"enable_user", "clear_crontab", "slay_user", "archive_website", "ensure_member",
     "mysql.drop_account", "pgsql.disable_account", "update_nis"}

C40_DeleteAfter ==
    tk_task = "delete_society" =>
        /\ ~tk_world.files => tk_world.archived
        /\ ~tk_world.record => (tk_world.admins = {} /\ tk_world.rows \ tk_world.pending = {})
        /\ tk_pc /= "ValueError"

\* the runner has the id ahead of it: its backlog query is still to run, or
\* the id is in the backlog, among the notifications, or the one in hand
C37_Ahead(r, i) ==
    \/ pc[r] = "query"
    \/ i \in Range(existing_ids[r])
    \/ i \in Range(notifies[r])
    \/ cur[r] = i

\* C37: no job inserted as queued around the start-up of the runner is
\* missed: whatever the interleaving of the insert with connect() and
\* queued_jobs(), the id is in the backlog or among the notifications of the
\* runner that holds the lock
C37_NoneMissed ==
    \A r \in Runners, i \in DOMAIN rows :
        (pc[r] \notin Dead \cup {"connect"} /\ rows[i].state = "queued") => C37_Ahead(r, i)

\* a row inserted between connect() and the backlog query is in the backlog
\* and among the notifications
C37_Witness ==
    \E r \in Runners, i \in DOMAIN rows :
        /\ rows[i].state = "queued"
        /\ i \in Range(existing_ids[r])
        /\ i \in Range(notifies[r])

\* C38: when a handler raises JobFailed the runner does not roll the session
\* back: what the handler changed before it raised is still in the session
\* when main reaches set_state, and is committed by the commit that records
\* the job as failed
C38_FailedCommits ==
    se_run.outcome \in {"jobfailed_none", "jobfailed_message"} =>
        /\ se_pc = "record" => se_sess = se_at_end
        /\ se_pc = "next" =>
              se_db = [se_at_end EXCEPT !.job = [state |-> "failed",
                                                 state_message |-> se_run.message]]

\* a handler that had changed rows in the session raised JobFailed, and the
\* failure was recorded with the changes
C38_Witness ==
    /\ se_run.outcome \in {"jobfailed_none", "jobfailed_message"}
    /\ se_pc = "next"
    /\ se_db.job.state = "failed"
    /\ se_at_end.data /= se_before.data
    /\ se_db.data = se_at_end.data

====
